---- MODULE Spec2Model ----
(***************************************************************************)
(* The order/position simulation engine of services/aggregate.py           *)
(* (AggregateService) with the two stores it writes through to: the Redis  *)
(* hashes strategy:{id}:orders / strategy:{id}:positions (the Mirror) and  *)
(* the SQLite tables orders / trades of services/storage.py (the Ledger).  *)
(*                                                                         *)
(* One action handles one message of the strategy-events channel, from     *)
(* handle_event to the handler's return or to the exception that the loop  *)
(* of run() catches.  Prices are integers.  Optional[float] values are     *)
(* sequences of length at most one: <<>> is Python's None, <<v>> is v.     *)
(* Fields whose value no branch of the engine uses (timestamps, close,     *)
(* volume, risk_pct, close_percent, leverage, unrealised_pnl) are left out *)
(* of the records; a message that lacks a key says so in its field missing.*)
(***************************************************************************)
EXTENDS Integers, Sequences, FiniteSets, TLC

\* Largest price of the model; prices are 0..MaxPrice.
MaxPrice == 2
\* Largest number of order fills in one behaviour of Spec and of SpecFaults.
MaxFills == 1
\* Largest number of order fills in one behaviour of SpecRedelivery.
MaxRefills == 2
\* Largest number of messages published to the channel by the strategy and by
\* other clients in one behaviour of SpecSystem.
MaxSent == 3
\* Largest candle timestamp of SpecSystem, in seconds; the exchange gives the
\* timestamps 1000, 2000 .. 1000 * MaxTs (milliseconds).
MaxTs == 3

Strategies == {"s1"}
Symbols == {"X"}
EventIds == {"e1", "e2"}
Prices == 0 .. MaxPrice

None == <<>>
Some(x) == <<x>>
OptPrices == {None} \cup {Some(p) : p \in Prices}

\* Python's truth value of an Optional[float]: None and 0 are false.
Truthy(o) == o # None /\ o[1] # 0

OpenActions == {"OPEN_LONG", "OPEN_SHORT"}
CloseActions == {"CLOSE_LONG", "CLOSE_SHORT"}
Actions == OpenActions \cup CloseActions

\* The number of the I/O call (Redis or SQLite) that raises in a handler; 0: none.
\* A tick that fills and closes makes eight calls, the most of any handler.
FailPoints == 0 .. 8

VARIABLES
    orders,          \* self.orders[strategy_id][symbol]
    positions,       \* self.positions[strategy_id][symbol]
    redisOrders,     \* Redis hash strategy:{strategy_id}:orders, field symbol
    redisPositions,  \* Redis hash strategy:{strategy_id}:positions, field symbol
    dbOrders,        \* SQLite table orders, by its primary key order_id
    dbTrades,        \* SQLite table trades, in insertion order
    published,       \* what the handler of the last message published, in order
    effects,         \* the effects of the handler of the last message, in order
    failed,          \* whether the handler of the last message raised
    fillLog,         \* history: the fills so far, in order
    inbox,           \* the messages of the engine's subscription not yet taken by run()
    lastProcessed,   \* the strategy's last_processed_timestamps[symbol]
    trace,           \* history: what the strategy published (sent), what reached the
                     \* engine's subscription (arrived), what run() handled (handled),
                     \* and the number of publications of the strategy and of other
                     \* clients (count)
    eventBus,        \* an EventBus of services/bus.py with its listener thread
    mockBus,         \* a MockBus of test_utils.py
    history          \* the Redis list of candles of one (strategy, symbol, timeframe)

vars == <<orders, positions, redisOrders, redisPositions, dbOrders, dbTrades,
          published, effects, failed, fillLog, inbox, lastProcessed, trace,
          eventBus, mockBus, history>>

\* The channel and the strategy process, which only SpecSystem moves.
systemVars == <<inbox, lastProcessed, trace>>

\* The buses and the candle list, which only SpecBus, SpecMockBus and SpecHistory
\* move.
libraryVars == <<eventBus, mockBus, history>>

\* The topics the strategy subscribes its EventBus to and the handlers it gives.
BusTopics == {"OrderUpdateEvent", "PositionUpdateEvent"}
BusHandlers == {"handle_order_update", "handle_position_update"}

\* EventBus.__init__: no handler, not running, no thread.  queue holds what the
\* pubsub connection has received and listen() has not yet yielded, pc is the
\* place of the listener thread, message and next the message and the handler
\* index of its loops; closed is the state of the pubsub connection.  log,
\* handled, arrivals and stopped are history: the handler invocations, the
\* messages whose processing has ended, the number of messages received and
\* whether stop() has returned.
NewEventBus ==
    [handlers |-> [topic \in BusTopics |-> <<>>],
     running |-> FALSE, closed |-> FALSE, queue |-> <<>>,
     pc |-> "init", message |-> None, next |-> 0,
     log |-> <<>>, handled |-> <<>>, arrivals |-> 0, stopped |-> FALSE]

\* MockBus.__init__: no subscriber, nothing published.  calls is history: the
\* handler invocations; raised says whether the last publish raised.
NewMockBus ==
    [subscribers |-> [topic \in BusTopics |-> <<>>],
     published |-> <<>>, calls |-> <<>>, raised |-> FALSE]

\* The candle list of a strategy that has published nothing: the key does not
\* exist.  pushed is history: every entry rpush has added; announced says
\* whether the last call of get_historical_data published its candle and faults
\* counts the calls in which a Redis command raised.
NewHistory == [list |-> <<>>, pushed |-> <<>>, announced |-> FALSE, faults |-> 0]

EmptyMap == [sid \in Strategies |-> [sym \in Symbols |-> None]]

Init ==
    /\ orders = EmptyMap
    /\ positions = EmptyMap
    /\ redisOrders = EmptyMap
    /\ redisPositions = EmptyMap
    /\ dbOrders = [e \in EventIds |-> None]
    /\ dbTrades = <<>>
    /\ published = <<>>
    /\ effects = <<>>
    /\ failed = FALSE
    /\ fillLog = <<>>
    /\ inbox = <<>>
    /\ lastProcessed = [sym \in Symbols |-> None]
    /\ trace = [sent |-> <<>>, arrived |-> <<>>, handled |-> <<>>, count |-> 0]
    /\ eventBus = NewEventBus
    /\ mockBus = NewMockBus
    /\ history = NewHistory

\* The state a handler starts from: the stores as they are, nothing published
\* yet, and the I/O call that will raise (failAt).
Begin(failAt) ==
    [orders |-> orders, positions |-> positions,
     redisOrders |-> redisOrders, redisPositions |-> redisPositions,
     dbOrders |-> dbOrders, dbTrades |-> dbTrades,
     published |-> <<>>, effects |-> <<>>, failed |-> FALSE,
     fillLog |-> fillLog, io |-> 0, failAt |-> failAt]

\* The handler's I/O call number st.io + 1 raises.
Raise(st) == [st EXCEPT !.io = @ + 1, !.failed = TRUE]

\* data['field'] of a dictionary without the key raises KeyError; no store call
\* is made.
KeyError(st) == [st EXCEPT !.failed = TRUE]

GetOrder(st, strategy_id, symbol) == st.orders[strategy_id][symbol]

GetPosition(st, strategy_id, symbol) == st.positions[strategy_id][symbol]

PublishEvent(st, event) ==
    IF st.failed THEN st
    ELSE IF st.io + 1 = st.failAt THEN Raise(st)
    ELSE [st EXCEPT !.io = @ + 1,
                    !.published = Append(@, event),
                    !.effects = Append(@, "publish")]

\* key = f"strategy:{strategy_id}:{state_type}", as its three parts.
RedisKey(strategy_id, state_type) == <<"strategy", strategy_id, state_type>>

\* SyncStateToRedis with a key that leaves out strategy_id, so that the slots
\* of a symbol share one field: C32 does not hold of it.
SyncStateToRedisBySymbol(st, strategy_id, symbol, state_type, data, remove) ==
    IF st.failed THEN st
    ELSE IF st.io + 1 = st.failAt THEN Raise(st)
    ELSE LET val == IF remove THEN None ELSE Some(data)
             s1 == [st EXCEPT !.io = @ + 1, !.effects = Append(@, "mirror")]
         IN  IF state_type = "orders"
             THEN [s1 EXCEPT !.redisOrders =
                      [sid \in DOMAIN @ |-> [@[sid] EXCEPT ![symbol] = val]]]
             ELSE [s1 EXCEPT !.redisPositions =
                      [sid \in DOMAIN @ |-> [@[sid] EXCEPT ![symbol] = val]]]

\* hdel(key, symbol) when remove, else hset(key, symbol, json.dumps(data)).
\* json.dumps of these dictionaries loses nothing, so the field holds the record.
SyncStateToRedis(st, strategy_id, symbol, state_type, data, remove) ==
    IF st.failed THEN st
    ELSE IF st.io + 1 = st.failAt THEN Raise(st)
    ELSE LET val == IF remove THEN None ELSE Some(data)
             s1 == [st EXCEPT !.io = @ + 1, !.effects = Append(@, "mirror")]
         IN  IF state_type = "orders"
             THEN [s1 EXCEPT !.redisOrders[strategy_id][symbol] = val]
             ELSE [s1 EXCEPT !.redisPositions[strategy_id][symbol] = val]

\* SaveOrder as a plain INSERT into a table keyed by row number: the row goes
\* to a key that holds none, whatever its order_id.  C34 does not hold of it.
SaveOrderInserting(st, order_data) ==
    IF st.failed THEN st
    ELSE IF st.io + 1 = st.failAt THEN Raise(st)
    ELSE LET free == {k \in DOMAIN st.dbOrders : st.dbOrders[k] = None}
             key == IF free = {} THEN order_data.order_id ELSE CHOOSE k \in free : TRUE
         IN  [st EXCEPT !.io = @ + 1,
                        !.dbOrders[key] = Some(order_data),
                        !.effects = Append(@, "ledger")]

\* INSERT OR REPLACE INTO orders: one row per order_id.
SaveOrder(st, order_data) ==
    IF st.failed THEN st
    ELSE IF st.io + 1 = st.failAt THEN Raise(st)
    ELSE [st EXCEPT !.io = @ + 1,
                    !.dbOrders[order_data.order_id] = Some(order_data),
                    !.effects = Append(@, "ledger")]

\* INSERT INTO trades: a new row.
SaveTrade(st, trade_data) ==
    IF st.failed THEN st
    ELSE IF st.io + 1 = st.failAt THEN Raise(st)
    ELSE [st EXCEPT !.io = @ + 1,
                    !.dbTrades = Append(@, trade_data),
                    !.effects = Append(@, "ledger")]

\* process_signal's choice of the order's kind: "if not price" is a MARKET order.
OrderTypeOf(price) == IF ~Truthy(price) THEN "MARKET" ELSE "LIMIT"

\* data['order_type'] = order_type; self.orders[strategy_id][symbol] = data; hset.
AddOrder(st, strategy_id, symbol, data, order_type) ==
    LET order == [event_id |-> data.event_id,
                  strategy_id |-> data.strategy_id,
                  symbol |-> data.symbol,
                  action |-> data.action,
                  price |-> data.price,
                  stop_loss |-> data.stop_loss,
                  take_profit |-> data.take_profit,
                  order_type |-> order_type]
        s1 == [st EXCEPT !.orders[strategy_id][symbol] = Some(order),
                         !.effects = Append(@, "memory")]
    IN  SyncStateToRedis(s1, strategy_id, symbol, "orders", order, FALSE)

\* Filled without the lower end of the candle's range: C5 does not hold of it.
FilledIgnoringLow(order, candle) ==
    IF order.order_type = "MARKET" THEN TRUE
    ELSE order.price[1] <= candle.high

\* check_order_fill's decision: a MARKET order always, a LIMIT order when the
\* candle's range holds its price.
Filled(order, candle) ==
    IF order.order_type = "MARKET" THEN TRUE
    ELSE candle.low <= order.price[1] /\ order.price[1] <= candle.high

\* FillPrice with a MARKET order priced at the candle's high: C4 does not hold of it.
FillPriceAtHigh(order, candle) ==
    IF order.order_type = "MARKET" THEN candle.high ELSE order.price[1]

FillPrice(order, candle) ==
    IF order.order_type = "MARKET" THEN candle.open ELSE order.price[1]

\* SideOf giving LONG for every action: C23 does not hold of it.
SideOfAlwaysLong(action) == "LONG"

SideOf(action) == IF action = "OPEN_LONG" THEN "LONG" ELSE "SHORT"

NewPosition(strategy_id, symbol, order, candle) ==
    [strategy_id |-> strategy_id,
     symbol |-> symbol,
     side |-> SideOf(order.action),
     size |-> 1,
     entry_price |-> FillPrice(order, candle),
     stop_loss |-> order.stop_loss,
     take_profit |-> order.take_profit]

OrderExecutionEvent(strategy_id, symbol, order, candle) ==
    [event_type |-> "OrderExecutionEvent",
     strategy_id |-> strategy_id,
     symbol |-> symbol,
     order_id |-> order.event_id,
     order_type |-> order.order_type,
     side |-> IF SideOf(order.action) = "LONG" THEN "BUY" ELSE "SELL",
     price |-> FillPrice(order, candle),
     qty |-> 1,
     status |-> "FILLED"]

OrderRow(strategy_id, symbol, order, candle) ==
    [order_id |-> order.event_id,
     strategy_id |-> strategy_id,
     symbol |-> symbol,
     side |-> order.action,
     price |-> FillPrice(order, candle),
     qty |-> 1,
     type |-> order.order_type,
     status |-> "FILLED"]

\* CheckOrderFill without the hdel of the slot's order key: C12 does not hold of it.
CheckOrderFillKeepingOrderKey(st, strategy_id, symbol, order, candle) ==
    IF order.order_type = "MARKET" /\ "open" \in candle.missing THEN KeyError(st)
    ELSE IF ~Filled(order, candle) THEN st
    ELSE LET new_pos == NewPosition(strategy_id, symbol, order, candle)
             s1 == [st EXCEPT
                       !.positions[strategy_id][symbol] = Some(new_pos),
                       !.orders[strategy_id][symbol] = None,
                       !.effects = Append(@, "memory"),
                       !.fillLog = Append(@, [strategy_id |-> strategy_id,
                                              symbol |-> symbol,
                                              order_id |-> order.event_id])]
             s2 == PublishEvent(s1, OrderExecutionEvent(strategy_id, symbol, order, candle))
             s3 == SaveOrder(s2, OrderRow(strategy_id, symbol, order, candle))
         IN  SyncStateToRedis(s3, strategy_id, symbol, "positions", new_pos, FALSE)

\* check_order_fill: memory, then the notice, then the Ledger, then the Mirror.
CheckOrderFill(st, strategy_id, symbol, order, candle) ==
    IF order.order_type = "MARKET" /\ "open" \in candle.missing THEN KeyError(st)
    ELSE IF ~Filled(order, candle) THEN st
    ELSE LET new_pos == NewPosition(strategy_id, symbol, order, candle)
             s1 == [st EXCEPT
                       !.positions[strategy_id][symbol] = Some(new_pos),
                       !.orders[strategy_id][symbol] = None,
                       !.effects = Append(@, "memory"),
                       !.fillLog = Append(@, [strategy_id |-> strategy_id,
                                              symbol |-> symbol,
                                              order_id |-> order.event_id])]
             s2 == PublishEvent(s1, OrderExecutionEvent(strategy_id, symbol, order, candle))
             s3 == SaveOrder(s2, OrderRow(strategy_id, symbol, order, candle))
             s4 == SyncStateToRedis(s3, strategy_id, symbol, "orders", None, TRUE)
         IN  SyncStateToRedis(s4, strategy_id, symbol, "positions", new_pos, FALSE)

NoExit == [exit_price |-> None, reason |-> "NONE"]

\* check_position_exit's decision: the stop-loss branch first, each bound
\* guarded by its truth value ("if sl and ...", "elif tp and ...").
ExitDecision(pos, candle) ==
    LET sl == pos.stop_loss
        tp == pos.take_profit
    IN  IF pos.side = "LONG"
        THEN IF Truthy(sl) /\ candle.low <= sl[1]
             THEN [exit_price |-> sl, reason |-> "SL"]
             ELSE IF Truthy(tp) /\ candle.high >= tp[1]
                  THEN [exit_price |-> tp, reason |-> "TP"]
                  ELSE NoExit
        ELSE IF Truthy(sl) /\ candle.high >= sl[1]
             THEN [exit_price |-> sl, reason |-> "SL"]
             ELSE IF Truthy(tp) /\ candle.low <= tp[1]
                  THEN [exit_price |-> tp, reason |-> "TP"]
                  ELSE NoExit

\* price_override or pos.get('last_close', pos['entry_price']): no code path
\* gives a position a last_close key, so the default is taken.
ExitPrice(pos, price_override) ==
    IF Truthy(price_override) THEN price_override[1] ELSE pos.entry_price

\* Pnl computed as for a LONG position whatever the side: C9 does not hold of it.
PnlIgnoringSide(pos, exit_price) == (exit_price - pos.entry_price) * pos.size

Pnl(pos, exit_price) ==
    IF pos.side = "LONG"
    THEN (exit_price - pos.entry_price) * pos.size
    ELSE (pos.entry_price - exit_price) * pos.size

\* reason if reason in ["TP", "SL"] else "TP"
TriggerType(reason) == IF reason \in {"TP", "SL"} THEN reason ELSE "TP"

TradeRow(strategy_id, symbol, pos, price_override, reason) ==
    [strategy_id |-> strategy_id,
     symbol |-> symbol,
     side |-> pos.side,
     entry_price |-> pos.entry_price,
     exit_price |-> ExitPrice(pos, price_override),
     qty |-> pos.size,
     pnl |-> Pnl(pos, ExitPrice(pos, price_override)),
     reason |-> reason]

TradeTerminalEvent(strategy_id, symbol, pos, price_override, reason) ==
    [event_type |-> "TradeTerminalEvent",
     strategy_id |-> strategy_id,
     symbol |-> symbol,
     trigger_type |-> TriggerType(reason),
     exit_price |-> ExitPrice(pos, price_override),
     pnl |-> Pnl(pos, ExitPrice(pos, price_override)),
     realised_pnl |-> Pnl(pos, ExitPrice(pos, price_override))]

PositionStateEvent(strategy_id, symbol, side, size, entry_price, stop_loss, take_profit) ==
    [event_type |-> "PositionStateEvent",
     strategy_id |-> strategy_id,
     symbol |-> symbol,
     side |-> side,
     size |-> size,
     entry_price |-> entry_price,
     stop_loss |-> stop_loss,
     take_profit |-> take_profit]

\* PopPosition leaving the Position in the map: C11 does not hold of it.
PopPositionKeeping(st, strategy_id, symbol) ==
    IF st.failed THEN st
    ELSE [st EXCEPT !.effects = Append(@, "memory")]

\* self.positions[strategy_id].pop(symbol)
PopPosition(st, strategy_id, symbol) ==
    IF st.failed THEN st
    ELSE [st EXCEPT !.positions[strategy_id][symbol] = None,
                    !.effects = Append(@, "memory")]

\* ClosePosition without the FLAT position-state notice: C10 does not hold of it.
ClosePositionWithoutFlat(st, strategy_id, symbol, pos, price_override, reason) ==
    LET s1 == SaveTrade(st, TradeRow(strategy_id, symbol, pos, price_override, reason))
        s2 == PopPosition(s1, strategy_id, symbol)
        s3 == SyncStateToRedis(s2, strategy_id, symbol, "positions", None, TRUE)
    IN  PublishEvent(s3, TradeTerminalEvent(strategy_id, symbol, pos,
                                            price_override, reason))

\* close_position: the Ledger, then memory, then the Mirror, then the notices.
ClosePosition(st, strategy_id, symbol, pos, price_override, reason) ==
    LET s1 == SaveTrade(st, TradeRow(strategy_id, symbol, pos, price_override, reason))
        s2 == PopPosition(s1, strategy_id, symbol)
        s3 == SyncStateToRedis(s2, strategy_id, symbol, "positions", None, TRUE)
        s4 == PublishEvent(s3, TradeTerminalEvent(strategy_id, symbol, pos,
                                                  price_override, reason))
    IN  PublishEvent(s4, PositionStateEvent(strategy_id, symbol, "FLAT", 0, 0, None, None))

\* check_position_exit: "if exit_price:" closes.
CheckPositionExit(st, strategy_id, symbol, pos, candle) ==
    LET d == ExitDecision(pos, candle)
    IN  IF Truthy(d.exit_price)
        THEN ClosePosition(st, strategy_id, symbol, pos, d.exit_price, d.reason)
        ELSE st

\* ProcessSignal closing only a Position whose side the CLOSE action names: C33
\* does not hold of it.
ProcessSignalMatchingSide(st, data) ==
    IF {"strategy_id", "symbol", "action"} \cap data.missing # {} THEN KeyError(st)
    ELSE IF data.action \in OpenActions
    THEN AddOrder(st, data.strategy_id, data.symbol, data, OrderTypeOf(data.price))
    ELSE LET pos == GetPosition(st, data.strategy_id, data.symbol)
         IN  IF pos # None /\ (pos[1].side = "LONG" <=> data.action = "CLOSE_LONG")
             THEN ClosePosition(st, data.strategy_id, data.symbol, pos[1], None, "SIGNAL")
             ELSE st

ProcessSignal(st, data) ==
    IF {"strategy_id", "symbol", "action"} \cap data.missing # {} THEN KeyError(st)
    ELSE IF data.action \in OpenActions
    THEN AddOrder(st, data.strategy_id, data.symbol, data, OrderTypeOf(data.price))
    ELSE LET pos == GetPosition(st, data.strategy_id, data.symbol)
         IN  IF pos # None
             THEN ClosePosition(st, data.strategy_id, data.symbol, pos[1], None, "SIGNAL")
             ELSE st

\* process_candle reads strategy_id, symbol, high, low, close and timestamp
\* before anything else.
ProcessCandle(st, data) ==
    IF {"strategy_id", "symbol", "high", "low", "close", "timestamp"} \cap data.missing # {}
    THEN KeyError(st)
    ELSE
    LET order == GetOrder(st, data.strategy_id, data.symbol)
        s1 == IF order # None
              THEN CheckOrderFill(st, data.strategy_id, data.symbol, order[1], data)
              ELSE st
        pos == GetPosition(s1, data.strategy_id, data.symbol)
    IN  IF ~s1.failed /\ pos # None
        THEN CheckPositionExit(s1, data.strategy_id, data.symbol, pos[1], data)
        ELSE s1

\* UpdateTpSl answering a request for a slot without a Position with a FLAT
\* position-state notice: C14 does not hold of it.
UpdateTpSlAnswering(st, data) ==
    LET pos == GetPosition(st, data.strategy_id, data.symbol)
    IN  IF {"strategy_id", "symbol"} \cap data.missing # {} THEN KeyError(st)
        ELSE IF pos = None
        THEN PublishEvent(st, PositionStateEvent(data.strategy_id, data.symbol,
                                                 "FLAT", 0, 0, None, None))
        ELSE LET p1 == IF data.has_stop_loss
                       THEN [pos[1] EXCEPT !.stop_loss = data.stop_loss] ELSE pos[1]
                 p2 == IF data.has_take_profit
                       THEN [p1 EXCEPT !.take_profit = data.take_profit] ELSE p1
                 s1 == [st EXCEPT !.positions[data.strategy_id][data.symbol] = Some(p2),
                                  !.effects = Append(@, "memory")]
                 s2 == PublishEvent(s1, PositionStateEvent(data.strategy_id, data.symbol,
                                        p2.side, p2.size, p2.entry_price,
                                        p2.stop_loss, p2.take_profit))
             IN  SyncStateToRedis(s2, data.strategy_id, data.symbol, "positions", p2, FALSE)

\* update_tp_sl: a key of the request that is present replaces the bound.
UpdateTpSl(st, data) ==
    LET pos == GetPosition(st, data.strategy_id, data.symbol)
    IN  IF {"strategy_id", "symbol"} \cap data.missing # {} THEN KeyError(st)
        ELSE IF pos = None THEN st
        ELSE LET p1 == IF data.has_stop_loss
                       THEN [pos[1] EXCEPT !.stop_loss = data.stop_loss] ELSE pos[1]
                 p2 == IF data.has_take_profit
                       THEN [p1 EXCEPT !.take_profit = data.take_profit] ELSE p1
                 s1 == [st EXCEPT !.positions[data.strategy_id][data.symbol] = Some(p2),
                                  !.effects = Append(@, "memory")]
                 s2 == PublishEvent(s1, PositionStateEvent(data.strategy_id, data.symbol,
                                        p2.side, p2.size, p2.entry_price,
                                        p2.stop_loss, p2.take_profit))
             IN  SyncStateToRedis(s2, data.strategy_id, data.symbol, "positions", p2, FALSE)

\* HandleEvent raising on an event_type it does not route: C21 does not hold of it.
HandleEventRaisingOnOthers(st, data) ==
    IF data.event_type = "StrategySignalEvent" THEN ProcessSignal(st, data)
    ELSE IF data.event_type = "CandleUpdateEvent" THEN ProcessCandle(st, data)
    ELSE IF data.event_type = "StrategySetTPSLEvent" THEN UpdateTpSl(st, data)
    ELSE KeyError(st)

HandleEvent(st, data) ==
    IF data.event_type = "StrategySignalEvent" THEN ProcessSignal(st, data)
    ELSE IF data.event_type = "CandleUpdateEvent" THEN ProcessCandle(st, data)
    ELSE IF data.event_type = "StrategySetTPSLEvent" THEN UpdateTpSl(st, data)
    ELSE st

\* One iteration of run(): the message is handled to its end, or to the
\* exception that the loop catches.  maxFills bounds the behaviour.
\* The engine is left as the handler's result r says.
Becomes(r) ==
    /\ orders' = r.orders
    /\ positions' = r.positions
    /\ redisOrders' = r.redisOrders
    /\ redisPositions' = r.redisPositions
    /\ dbOrders' = r.dbOrders
    /\ dbTrades' = r.dbTrades
    /\ published' = r.published
    /\ effects' = r.effects
    /\ failed' = r.failed
    /\ fillLog' = r.fillLog

Handle(data, failAt, maxFills) ==
    LET r == HandleEvent(Begin(failAt), data)
    IN  /\ Len(r.fillLog) <= maxFills
        /\ Becomes(r)
        /\ UNCHANGED systemVars
        /\ UNCHANGED libraryVars

\* The messages as the dictionaries json.loads gives; missing is the set of keys
\* that a malformed message lacks (the value of such a key is not read).
SignalEvent(event_id, strategy_id, symbol, action, price, stop_loss, take_profit) ==
    [event_type |-> "StrategySignalEvent", event_id |-> event_id,
     strategy_id |-> strategy_id, symbol |-> symbol, action |-> action,
     price |-> price, stop_loss |-> stop_loss, take_profit |-> take_profit,
     missing |-> {}]

CandleEvent(strategy_id, symbol, open, high, low) ==
    [event_type |-> "CandleUpdateEvent", strategy_id |-> strategy_id,
     symbol |-> symbol, open |-> open, high |-> high, low |-> low, missing |-> {}]

\* A request dictionary: has_stop_loss / has_take_profit say whether the key is
\* in it; the value of a key that is not in it is not read.
SetTPSLEvent(strategy_id, symbol, has_stop_loss, stop_loss, has_take_profit, take_profit) ==
    [event_type |-> "StrategySetTPSLEvent", strategy_id |-> strategy_id,
     symbol |-> symbol, has_stop_loss |-> has_stop_loss, stop_loss |-> stop_loss,
     has_take_profit |-> has_take_profit, take_profit |-> take_profit,
     missing |-> {}]

\* StrategySetTPSLEvent(strategy_id=..., symbol=..., stop_loss=..., take_profit=...)
\* as its dict() / json() gives it to the channel: both keys are in the
\* dictionary, a bound the constructor was not given as None.
SetTPSLDict(strategy_id, symbol, stop_loss, take_profit) ==
    SetTPSLEvent(strategy_id, symbol, TRUE, stop_loss, TRUE, take_profit)

\* The (stop_loss, take_profit) pairs the open signals of Spec carry: none, a
\* bracket around price 1 for a LONG and for a SHORT entry, and zero bounds.  Every
\* other pair reaches a Position through a TP/SL update request.
SignalBounds ==
    {<<None, None>>, <<Some(1), Some(MaxPrice)>>, <<Some(MaxPrice), Some(1)>>,
     <<Some(0), Some(0)>>}

OpenSignals ==
    {SignalEvent("e1", sid, sym, a, p, b[1], b[2]) :
        sid \in Strategies, sym \in Symbols, a \in OpenActions,
        p \in OptPrices, b \in SignalBounds}

CloseSignals ==
    {SignalEvent("e1", sid, sym, a, None, None, None) :
        sid \in Strategies, sym \in Symbols, a \in CloseActions}

Candles ==
    {CandleEvent(sid, sym, o, h, l) :
        sid \in Strategies, sym \in Symbols, o \in Prices, h \in Prices, l \in Prices}

SetTPSLs ==
    {SetTPSLEvent(sid, sym, hs, sl, ht, tp) :
        sid \in Strategies, sym \in Symbols, hs \in BOOLEAN, sl \in OptPrices,
        ht \in BOOLEAN, tp \in OptPrices}
    \ {e \in [event_type : {"StrategySetTPSLEvent"}, strategy_id : Strategies,
              symbol : Symbols, has_stop_loss : BOOLEAN, stop_loss : OptPrices,
              has_take_profit : BOOLEAN, take_profit : OptPrices, missing : {{}}] :
          \/ ~e.has_stop_loss /\ e.stop_loss # None
          \/ ~e.has_take_profit /\ e.take_profit # None}

\* Events the engine does not route: those of other producers (a lifecycle
\* event, an event without event_type, which data.get gives as None).
OtherEvents ==
    {[event_type |-> t, strategy_id |-> sid] :
        t \in {"StrategyLifecycleEvent", "None"}, sid \in Strategies}

(***************************************************************************)
(* Spec: the engine on one slot, every store call succeeding.  The engine  *)
(* publishes its notices on the channel it is subscribed to, so it receives *)
(* them back.                                                              *)
(***************************************************************************)
OnOpenSignal ==
    \E data \in OpenSignals :
        /\ data.event_type = "StrategySignalEvent"
        /\ Handle(data, 0, MaxFills)

OnCloseSignal ==
    \E data \in CloseSignals :
        /\ data.event_type = "StrategySignalEvent"
        /\ Handle(data, 0, MaxFills)

OnCandle ==
    \E data \in Candles :
        /\ data.event_type = "CandleUpdateEvent"
        /\ Handle(data, 0, MaxFills)

OnSetTPSL ==
    \E data \in SetTPSLs :
        /\ data.event_type = "StrategySetTPSLEvent"
        /\ Handle(data, 0, MaxFills)

\* One of the notices of the last handler comes back from the channel.
OnOwnNotice ==
    \E i \in 1 .. Len(published) :
        /\ published[i].event_type \in {"OrderExecutionEvent", "PositionStateEvent",
                                        "TradeTerminalEvent"}
        /\ Handle(published[i], 0, MaxFills)

OnOtherEvent ==
    \E data \in OtherEvents :
        /\ data.event_type \notin {"StrategySignalEvent", "CandleUpdateEvent",
                                    "StrategySetTPSLEvent"}
        /\ Handle(data, 0, MaxFills)

Next ==
    \/ OnOpenSignal
    \/ OnCloseSignal
    \/ OnCandle
    \/ OnSetTPSL
    \/ OnOwnNotice
    \/ OnOtherEvent

Spec == Init /\ [][Next]_vars

\* r.hget(key, field) of the Redis the engine writes: redisOrders and
\* redisPositions are the hashes at the keys _sync_state_to_redis names, every
\* other key has no hash.
Hget(key, field) ==
    IF \E sid \in Strategies : key = RedisKey(sid, "orders")
    THEN redisOrders[key[2]][field]
    ELSE IF \E sid \in Strategies : key = RedisKey(sid, "positions")
         THEN redisPositions[key[2]][field]
         ELSE None

(***************************************************************************)
(* SpecRedelivery: at-least-once delivery.  Each event id names one signal, *)
(* which the channel may deliver again at any time, between any ticks and  *)
(* close signals.                                                          *)
(***************************************************************************)
RedeliveredSignals ==
    {SignalEvent("e1", sid, sym, "OPEN_LONG", None, None, None) :
        sid \in Strategies, sym \in Symbols}
    \cup
    {SignalEvent("e2", sid, sym, "OPEN_SHORT", Some(1), Some(MaxPrice), None) :
        sid \in Strategies, sym \in Symbols}

DeliverOpenSignal ==
    \E data \in RedeliveredSignals :
        /\ data.event_type = "StrategySignalEvent"
        /\ Handle(data, 0, MaxRefills)

DeliverCloseSignal ==
    \E data \in CloseSignals :
        /\ data.event_type = "StrategySignalEvent"
        /\ Handle(data, 0, MaxRefills)

DeliverCandle ==
    \E data \in Candles :
        /\ data.event_type = "CandleUpdateEvent"
        /\ Handle(data, 0, MaxRefills)

NextRedelivery == DeliverOpenSignal \/ DeliverCloseSignal \/ DeliverCandle

SpecRedelivery == Init /\ [][NextRedelivery]_vars

(***************************************************************************)
(* SpecFaults: as Spec, and any one Redis or SQLite call of a handler may  *)
(* raise; the handler stops there and the loop of run() goes on with the   *)
(* next message.                                                           *)
(***************************************************************************)
\* The I/O calls a handler makes at most: _add_order one, close_position four,
\* update_tp_sl two, a tick that fills and closes eight.
FailPointsOf(data) ==
    IF data.event_type = "CandleUpdateEvent" THEN FailPoints
    ELSE IF data.event_type = "StrategySetTPSLEvent" THEN 0 .. 2
    ELSE IF data.action \in OpenActions THEN 0 .. 1
    ELSE 0 .. 4

\* A LONG market order and a SHORT limit order, each with its bracket.
FaultOpenSignals ==
    {SignalEvent("e1", sid, sym, "OPEN_LONG", None, Some(1), Some(MaxPrice)) :
        sid \in Strategies, sym \in Symbols}
    \cup
    {SignalEvent("e2", sid, sym, "OPEN_SHORT", Some(1), Some(MaxPrice), Some(1)) :
        sid \in Strategies, sym \in Symbols}

\* Candles whose open lies in their range.
FaultCandles == {c \in Candles : c.low <= c.open /\ c.open <= c.high}

FaultSetTPSLs ==
    {e \in SetTPSLs : /\ e.has_stop_loss # e.has_take_profit
                      /\ e.has_stop_loss => e.stop_loss = Some(1)
                      /\ e.has_take_profit => e.take_profit = Some(MaxPrice)}

FaultMessages == FaultOpenSignals \cup CloseSignals \cup FaultCandles \cup FaultSetTPSLs

FaultyOpenSignal ==
    \E data \in FaultOpenSignals : \E failAt \in FailPointsOf(data) :
        /\ data.event_type = "StrategySignalEvent"
        /\ Handle(data, failAt, MaxFills)

FaultyCloseSignal ==
    \E data \in CloseSignals : \E failAt \in FailPointsOf(data) :
        /\ data.event_type = "StrategySignalEvent"
        /\ Handle(data, failAt, MaxFills)

FaultyCandle ==
    \E data \in FaultCandles : \E failAt \in FailPointsOf(data) :
        /\ data.event_type = "CandleUpdateEvent"
        /\ Handle(data, failAt, MaxFills)

FaultySetTPSL ==
    \E data \in FaultSetTPSLs : \E failAt \in FailPointsOf(data) :
        /\ data.event_type = "StrategySetTPSLEvent"
        /\ Handle(data, failAt, MaxFills)

NextFaults == FaultyOpenSignal \/ FaultyCloseSignal \/ FaultyCandle \/ FaultySetTPSL

SpecFaults == Init /\ [][NextFaults]_vars

(***************************************************************************)
(* SpecMalformed: the channel also delivers payloads that json.loads       *)
(* rejects and signals and ticks that lack one key; every store call       *)
(* succeeds.                                                               *)
(***************************************************************************)
SignalKeys == {"strategy_id", "symbol", "action"}
CandleKeys == {"strategy_id", "symbol", "open", "high", "low", "close", "timestamp"}

MalformedSignals ==
    {[data EXCEPT !.missing = {k}] :
        data \in FaultOpenSignals \cup CloseSignals, k \in SignalKeys}

MalformedCandles ==
    {[data EXCEPT !.missing = {k}] : data \in FaultCandles, k \in CandleKeys}

\* json.loads(message['data']) raises: handle_event is not called.
DropUndecodable ==
    /\ failed' = TRUE
    /\ published' = <<>>
    /\ effects' = <<>>
    /\ UNCHANGED <<orders, positions, redisOrders, redisPositions, dbOrders,
                   dbTrades, fillLog>>
    /\ UNCHANGED systemVars
    /\ UNCHANGED libraryVars

ReceiveMalformedSignal ==
    \E data \in MalformedSignals :
        /\ data.event_type = "StrategySignalEvent"
        /\ Handle(data, 0, MaxFills)

ReceiveMalformedCandle ==
    \E data \in MalformedCandles :
        /\ data.event_type = "CandleUpdateEvent"
        /\ Handle(data, 0, MaxFills)

ReceiveOpenSignal ==
    \E data \in OpenSignals :
        /\ data.event_type = "StrategySignalEvent"
        /\ Handle(data, 0, MaxFills)

ReceiveCloseSignal ==
    \E data \in CloseSignals :
        /\ data.event_type = "StrategySignalEvent"
        /\ Handle(data, 0, MaxFills)

ReceiveCandle ==
    \E data \in FaultCandles :
        /\ data.event_type = "CandleUpdateEvent"
        /\ Handle(data, 0, MaxFills)

ReceiveSetTPSL ==
    \E data \in FaultSetTPSLs :
        /\ data.event_type = "StrategySetTPSLEvent"
        /\ Handle(data, 0, MaxFills)

NextMalformed ==
    \/ DropUndecodable
    \/ ReceiveMalformedSignal
    \/ ReceiveMalformedCandle
    \/ ReceiveOpenSignal
    \/ ReceiveCloseSignal
    \/ ReceiveCandle
    \/ ReceiveSetTPSL

SpecMalformed == Init /\ [][NextMalformed]_vars

(***************************************************************************)
(* SpecSystem: the strategy process, the Redis pub/sub channel and the     *)
(* engine.  A message published on a topic is appended to the queue of     *)
(* every subscription to that topic and is lost when there is none.        *)
(***************************************************************************)
CH_STRATEGY_EVENTS == "strategy:events"

Processes == {"engine", "api", "strategy"}

\* The topics each process subscribes to.
Subscriptions(process) ==
    CASE process = "engine" -> {CH_STRATEGY_EVENTS}
      [] process = "api" -> {CH_STRATEGY_EVENTS}
      [] process = "strategy" -> {"OrderUpdateEvent", "PositionUpdateEvent"}

SubscribersOf(topic) == {process \in Processes : topic \in Subscriptions(process)}

\* redis.publish(topic, json.dumps(event_data)), seen from the engine's
\* subscription: its queue after the publication.
Deliver(queue, topic, data) ==
    IF "engine" \in SubscribersOf(topic) THEN Append(queue, data) ELSE queue

\* The topics the strategy and the engine publish on.
TopicOfSignal == "StrategySignalEvent"
TopicOfSetTPSL == "StrategySetTPSLEvent"
TopicOfCandle == CH_STRATEGY_EVENTS
TopicOfNotice == CH_STRATEGY_EVENTS

\* The kline timestamps of the exchange, in milliseconds.
Timestamps == {1000 * k : k \in 1 .. MaxTs}

\* timestamp=ts / 1000.0 of the published CandleUpdateEvent.
SecondsOf(ts) == ts \div 1000

\* The publication of data on topic, by the strategy (sent is recorded) or by
\* another client of the channel.
Publication(topic, data, byStrategy) ==
    /\ trace.count < MaxSent
    /\ inbox' = Deliver(inbox, topic, data)
    /\ trace' = [trace EXCEPT
                    !.count = @ + 1,
                    !.sent = IF byStrategy
                             THEN Append(@, [topic |-> topic, data |-> data]) ELSE @,
                    !.arrived = Deliver(@, topic, data)]

\* IsNewCandle accepting the timestamp of the last published candle again: C29
\* does not hold of it.
IsNewCandleOrSame(last, ts) == IF last = None THEN TRUE ELSE ts >= last[1]

\* symbol not in self.last_processed_timestamps or ts > self.last_processed_timestamps[symbol]
IsNewCandle(last, ts) == IF last = None THEN TRUE ELSE ts > last[1]

\* get_historical_data: the last kline of what the exchange returned has
\* timestamp ts; a new one is remembered, pushed to the candles list (rpush, which
\* may raise) and published.
GetHistoricalData ==
    \E sid \in Strategies, sym \in Symbols, ts \in Timestamps, p \in Prices,
       pushed \in BOOLEAN :
        /\ IsNewCandle(lastProcessed[sym], ts)
        /\ lastProcessed' = [lastProcessed EXCEPT ![sym] = Some(ts)]
        /\ IF pushed
           THEN Publication(TopicOfCandle,
                            CandleEvent(sid, sym, p, p, p)
                                @@ [timestamp |-> SecondsOf(ts)], TRUE)
           ELSE UNCHANGED <<inbox, trace>>
        /\ UNCHANGED <<orders, positions, redisOrders, redisPositions, dbOrders,
                       dbTrades, published, effects, failed, fillLog>>
        /\ UNCHANGED libraryVars

\* send_signal: signal.dict() on the topic "StrategySignalEvent".
SendSignal ==
    \E data \in FaultOpenSignals \cup CloseSignals :
        /\ Publication(TopicOfSignal, data, TRUE)
        /\ UNCHANGED <<orders, positions, redisOrders, redisPositions, dbOrders,
                       dbTrades, published, effects, failed, fillLog, lastProcessed>>
        /\ UNCHANGED libraryVars

\* send_update_sl: StrategySetTPSLEvent(stop_loss=...).dict() on the topic
\* "StrategySetTPSLEvent".
SendUpdateSl ==
    \E sid \in Strategies, sym \in Symbols :
        /\ Publication(TopicOfSetTPSL, SetTPSLDict(sid, sym, Some(1), None), TRUE)
        /\ UNCHANGED <<orders, positions, redisOrders, redisPositions, dbOrders,
                       dbTrades, published, effects, failed, fillLog, lastProcessed>>
        /\ UNCHANGED libraryVars

\* Another client of the Redis server publishes a signal on strategy:events.
ClientPublishesSignal ==
    \E data \in FaultOpenSignals :
        /\ Publication(CH_STRATEGY_EVENTS, data, FALSE)
        /\ UNCHANGED <<orders, positions, redisOrders, redisPositions, dbOrders,
                       dbTrades, published, effects, failed, fillLog, lastProcessed>>
        /\ UNCHANGED libraryVars

\* GetMessage taking the newest message of the queue: C28 does not hold of it.
GetMessageNewestFirst(queue) ==
    [message |-> queue[Len(queue)], rest |-> SubSeq(queue, 1, Len(queue) - 1)]

\* pubsub.get_message(): the oldest message of the subscription.
GetMessage(queue) == [message |-> Head(queue), rest |-> Tail(queue)]

RECURSIVE DeliverAll(_, _, _)
DeliverAll(queue, topic, events) ==
    IF events = <<>> THEN queue
    ELSE DeliverAll(Deliver(queue, topic, Head(events)), topic, Tail(events))

\* One iteration of run(): the oldest message is taken and handled to the end
\* of its handler; what the handler published is in the channel by then.
EngineStep ==
    /\ inbox # <<>>
    /\ LET m == GetMessage(inbox)
           r == HandleEvent(Begin(0), m.message)
       IN  /\ Becomes(r)
           /\ inbox' = DeliverAll(m.rest, TopicOfNotice, r.published)
           /\ trace' = [trace EXCEPT
                           !.handled = Append(@, m.message),
                           !.arrived = DeliverAll(@, TopicOfNotice, r.published)]
    /\ UNCHANGED lastProcessed
    /\ UNCHANGED libraryVars

NextSystem ==
    \/ GetHistoricalData
    \/ SendSignal
    \/ SendUpdateSl
    \/ ClientPublishesSignal
    \/ EngineStep

SpecSystem == Init /\ [][NextSystem]_vars

(***************************************************************************)
(* The claims.  After(data) is the engine as the handler of message data   *)
(* leaves it when started in the current state with every store call       *)
(* succeeding; a claim about a handler is stated of After(data) for every  *)
(* message data, in every reachable state.                                 *)
(***************************************************************************)
After(data) == HandleEvent(Begin(0), data)

Last(seq) == seq[Len(seq)]

NoticesOf(seq, event_type) == SelectSeq(seq, LAMBDA e : e.event_type = event_type)

\* The numbers of fills and of ClosedTrades of a slot.
FillsOf(sid, sym) ==
    Cardinality({i \in 1 .. Len(fillLog) :
                    fillLog[i].strategy_id = sid /\ fillLog[i].symbol = sym})

TradesOf(sid, sym) ==
    Cardinality({i \in 1 .. Len(dbTrades) :
                    dbTrades[i].strategy_id = sid /\ dbTrades[i].symbol = sym})

\* C1: no (strategy_id, symbol) slot holds an entry of the orders map and an
\* entry of the positions map at the same time.
C1_NoOrderWithPosition ==
    \A sid \in Strategies, sym \in Symbols :
        ~(orders[sid][sym] # None /\ positions[sid][sym] # None)

\* C2: an OPEN signal handled for a slot that holds a PendingOrder or a Position
\* leaves the slot's order and position and its Mirror entries as they were.
C2_OpenOnBusySlotIsNoOp ==
    \A data \in OpenSignals :
        LET sid == data.strategy_id
            sym == data.symbol
            r == After(data)
        IN  (orders[sid][sym] # None \/ positions[sid][sym] # None)
            => /\ r.orders[sid][sym] = orders[sid][sym]
               /\ r.positions[sid][sym] = positions[sid][sym]
               /\ r.redisOrders[sid][sym] = redisOrders[sid][sym]
               /\ r.redisPositions[sid][sym] = redisPositions[sid][sym]

\* C3: a signal (one event id), however often it is delivered and whatever ticks
\* come between, leads to at most one fill: one Position creation, one
\* order-execution notice.
C3_AtMostOneFillPerSignal ==
    \A e \in EventIds :
        Cardinality({i \in 1 .. Len(fillLog) : fillLog[i].order_id = e}) <= 1

\* The result r of a tick holds the fill of order at price: the order is gone,
\* the fill is the one new entry of the fill history, the first notice is its
\* order-execution notice, and the Position it created entered at price (it is
\* in the slot, or the same tick closed it and its ClosedTrade is the new row).
FilledAt(r, sid, sym, order, price) ==
    /\ r.orders[sid][sym] = None
    /\ r.fillLog = Append(fillLog, [strategy_id |-> sid, symbol |-> sym,
                                    order_id |-> order.event_id])
    /\ r.published # <<>>
    /\ r.published[1].event_type = "OrderExecutionEvent"
    /\ r.published[1].order_id = order.event_id
    /\ r.published[1].price = price
    /\ \/ /\ r.positions[sid][sym] # None
          /\ r.positions[sid][sym][1].entry_price = price
          /\ r.dbTrades = dbTrades
       \/ /\ r.positions[sid][sym] = None
          /\ Len(r.dbTrades) = Len(dbTrades) + 1
          /\ Last(r.dbTrades).entry_price = price

\* C4: a MARKET PendingOrder fills on the next tick handled for its slot, whatever
\* the tick's high and low, and the Position enters at the tick's open.
C4_MarketFillsAtOpen ==
    \A data \in Candles :
        LET sid == data.strategy_id
            sym == data.symbol
            o == orders[sid][sym]
        IN  (o # None /\ o[1].order_type = "MARKET")
            => FilledAt(After(data), sid, sym, o[1], data.open)

W_C4_MarketFilled ==
    \E sid \in Strategies, sym \in Symbols :
        /\ published # <<>>
        /\ published[1].event_type = "OrderExecutionEvent"
        /\ published[1].order_type = "MARKET"
        /\ published[1].price = MaxPrice
        /\ orders[sid][sym] = None
        /\ positions[sid][sym] # None
        /\ positions[sid][sym][1].entry_price = MaxPrice

\* C5: a LIMIT PendingOrder at price P fills on a tick of its slot iff
\* low <= P <= high, and then the Position enters at P; on any other tick the
\* order stays as it is and no Position is created.
C5_LimitFillsIffCrossed ==
    \A data \in Candles :
        LET sid == data.strategy_id
            sym == data.symbol
            o == orders[sid][sym]
            r == After(data)
        IN  (o # None /\ o[1].order_type = "LIMIT")
            => IF data.low <= o[1].price[1] /\ o[1].price[1] <= data.high
               THEN FilledAt(r, sid, sym, o[1], o[1].price[1])
               ELSE /\ r.orders[sid][sym] = o
                    /\ r.fillLog = fillLog
                    /\ NoticesOf(r.published, "OrderExecutionEvent") = <<>>
                    /\ r.positions[sid][sym] \in {None, positions[sid][sym]}

W_C5_LimitFilled ==
    \E sid \in Strategies, sym \in Symbols :
        /\ published # <<>>
        /\ published[1].event_type = "OrderExecutionEvent"
        /\ published[1].order_type = "LIMIT"
        /\ orders[sid][sym] = None
        /\ positions[sid][sym] # None
        /\ positions[sid][sym][1].entry_price = published[1].price

\* C6: between handlers, for each slot, the number of fills is the number of
\* ClosedTrades plus one if the slot holds a Position: a Position leaves the
\* positions map only through the close routine.
C6_FillsBalanceTrades ==
    \A sid \in Strategies, sym \in Symbols :
        FillsOf(sid, sym)
            = TradesOf(sid, sym) + (IF positions[sid][sym] # None THEN 1 ELSE 0)

\* The exit conditions as the specification states them: a bound that is set
\* (not None) triggers when the tick reaches it.
StopLossHolds(pos, candle) ==
    /\ pos.stop_loss # None
    /\ IF pos.side = "LONG" THEN candle.low <= pos.stop_loss[1]
                            ELSE candle.high >= pos.stop_loss[1]

TakeProfitHolds(pos, candle) ==
    /\ pos.take_profit # None
    /\ IF pos.side = "LONG" THEN candle.high >= pos.take_profit[1]
                            ELSE candle.low <= pos.take_profit[1]

ClosedByTrigger(r, sid, sym) ==
    /\ Len(r.dbTrades) = Len(dbTrades) + 1
    /\ Last(r.dbTrades).reason \in {"SL", "TP"}
    /\ r.positions[sid][sym] = None

\* C7: a tick closes the Position of its slot by trigger exactly when the
\* stop-loss or the take-profit condition holds, for every value of a set bound.
C7_TriggerExactlyWhenBoundReached ==
    \A data \in Candles :
        LET sid == data.strategy_id
            sym == data.symbol
            p == positions[sid][sym]
        IN  p # None
            => (ClosedByTrigger(After(data), sid, sym)
                    <=> (StopLossHolds(p[1], data) \/ TakeProfitHolds(p[1], data)))

\* C8: when the stop-loss and the take-profit condition hold on the same tick,
\* the Position is closed with reason SL at exit_price stop_loss.
C8_StopLossWinsTie ==
    \A data \in Candles :
        LET sid == data.strategy_id
            sym == data.symbol
            p == positions[sid][sym]
            r == After(data)
        IN  (p # None /\ StopLossHolds(p[1], data) /\ TakeProfitHolds(p[1], data))
            => /\ ClosedByTrigger(r, sid, sym)
               /\ Last(r.dbTrades).reason = "SL"
               /\ Last(r.dbTrades).exit_price = p[1].stop_loss[1]

\* C9: the pnl of the ClosedTrade and of the trade-terminal notice of a close is
\* (exit_price - entry_price) * size for a LONG and (entry_price - exit_price) *
\* size for a SHORT position, with size 1; the exit_price of a triggered exit is
\* the stop_loss or the take_profit of the closed Position.
C9_PnlOfClose ==
    \A data \in Candles \cup CloseSignals :
        LET sid == data.strategy_id
            sym == data.symbol
            r == After(data)
            row == Last(r.dbTrades)
            terminal == NoticesOf(r.published, "TradeTerminalEvent")
            fill == NoticesOf(r.published, "OrderExecutionEvent")
            \* The closed Position: the slot's, or the one this tick's fill created.
            side == IF fill = <<>> THEN positions[sid][sym][1].side
                    ELSE IF fill[1].side = "BUY" THEN "LONG" ELSE "SHORT"
            entry_price == IF fill = <<>> THEN positions[sid][sym][1].entry_price
                           ELSE fill[1].price
            bounds == IF fill = <<>> THEN positions[sid][sym][1] ELSE orders[sid][sym][1]
        IN  Len(r.dbTrades) > Len(dbTrades)
            => /\ row.side = side
               /\ row.entry_price = entry_price
               /\ row.qty = 1
               /\ row.pnl = IF side = "LONG"
                            THEN (row.exit_price - entry_price) * 1
                            ELSE (entry_price - row.exit_price) * 1
               /\ Len(terminal) = 1
               /\ terminal[1].exit_price = row.exit_price
               /\ terminal[1].pnl = row.pnl
               /\ row.reason = "SL" => row.exit_price = bounds.stop_loss[1]
               /\ row.reason = "TP" => row.exit_price = bounds.take_profit[1]

W_C9_ShortClosedWithProfit ==
    /\ dbTrades # <<>>
    /\ Last(dbTrades).side = "SHORT"
    /\ Last(dbTrades).reason = "TP"
    /\ Last(dbTrades).pnl = MaxPrice - 1
    /\ published # <<>>
    /\ published[1].event_type = "TradeTerminalEvent"
    /\ published[1].pnl = MaxPrice - 1

FlatNotice(sid, sym) == PositionStateEvent(sid, sym, "FLAT", 0, 0, None, None)

\* C10: a close in which no store call fails appends exactly one ClosedTrade,
\* removes the Position from memory and from the Mirror, and publishes exactly
\* one trade-terminal notice and then exactly one FLAT position-state notice
\* (size 0, entry_price 0); a handler closes at most once, and a Position is
\* gone from a slot only when the handler closed.
C10_CloseEffects ==
    \A data \in FaultMessages : \A failAt \in FailPointsOf(data) :
        LET sid == data.strategy_id
            sym == data.symbol
            r == HandleEvent(Begin(failAt), data)
            n == Len(r.published)
            terminal == NoticesOf(r.published, "TradeTerminalEvent")
            flat == SelectSeq(r.published, LAMBDA e : e.event_type = "PositionStateEvent"
                                                      /\ e.side = "FLAT")
            closed == \/ r.dbTrades # dbTrades
                      \/ terminal # <<>>
                      \/ flat # <<>>
                      \/ r.positions[sid][sym] = None /\ positions[sid][sym] # None
        IN  (~r.failed /\ closed)
            => /\ Len(r.dbTrades) = Len(dbTrades) + 1
               /\ SubSeq(r.dbTrades, 1, Len(dbTrades)) = dbTrades
               /\ Last(r.dbTrades).strategy_id = sid
               /\ Last(r.dbTrades).symbol = sym
               /\ r.positions[sid][sym] = None
               /\ r.redisPositions[sid][sym] = None
               /\ Len(terminal) = 1
               /\ Len(flat) = 1
               /\ n >= 2
               /\ r.published[n - 1].event_type = "TradeTerminalEvent"
               /\ r.published[n] = FlatNotice(sid, sym)

W_C10_ClosedAfterFault ==
    \E sid \in Strategies, sym \in Symbols :
        /\ ~failed
        /\ Len(dbTrades) = 1
        /\ positions[sid][sym] = None
        /\ redisPositions[sid][sym] = None
        /\ redisOrders[sid][sym] # None
        /\ orders[sid][sym] = None
        /\ Len(published) = 2
        /\ published[1].event_type = "TradeTerminalEvent"
        /\ published[2] = FlatNotice(sid, sym)

\* The next iteration of run() after the handler that left r: message data is
\* handled in the state r.
Replay(r, data) ==
    HandleEvent([r EXCEPT !.published = <<>>, !.effects = <<>>, !.io = 0], data)

\* C11: a tick that closed the Position of its slot, handled a second time right
\* after, adds no ClosedTrade, publishes no trade-terminal notice and leaves the
\* slot without a Position.
C11_ReplayedClosingTick ==
    \A data \in Candles :
        LET sid == data.strategy_id
            sym == data.symbol
            r == After(data)
            again == Replay(r, data)
        IN  Len(r.dbTrades) > Len(dbTrades)
            => /\ again.dbTrades = r.dbTrades
               /\ NoticesOf(again.published, "TradeTerminalEvent") = <<>>
               /\ again.positions[sid][sym] = None
               /\ again.redisPositions[sid][sym] = None

\* A tick has just closed the Position by its stop-loss, and handling a tick
\* again publishes nothing.
W_C11_TickClosedThenReplayed ==
    \E data \in Candles :
        /\ Len(published) = 2
        /\ published[1].event_type = "TradeTerminalEvent"
        /\ published[1].trigger_type = "SL"
        /\ Last(dbTrades).reason = "SL"
        /\ positions[data.strategy_id][data.symbol] = None
        /\ Replay(Begin(0), data).published = <<>>
        /\ Replay(Begin(0), data).dbTrades = dbTrades

\* The number of effects of one kind among the effects of a handler.
CountOf(seq, kind) == Len(SelectSeq(seq, LAMBDA x : x = kind))

\* C12: a fill in which no store call fails writes one order record to the
\* Ledger, deletes the slot's order key from the Mirror, sets the slot's position
\* key to the new Position and publishes one order-execution notice with status
\* FILLED, each once; the fill leaves the Mirror with a position key and no order
\* key for the slot.
C12_FillEffectsOnce ==
    \A data \in Candles :
        LET sid == data.strategy_id
            sym == data.symbol
            o == orders[sid][sym]
            r == After(data)
            fill == CheckOrderFill(Begin(0), sid, sym, o[1], data)
            notices == NoticesOf(r.published, "OrderExecutionEvent")
        IN  r.fillLog # fillLog
            => /\ Len(notices) = 1
               /\ notices[1].status = "FILLED"
               /\ notices[1].order_id = o[1].event_id
               /\ r.dbOrders[o[1].event_id] # None
               /\ r.dbOrders[o[1].event_id][1].status = "FILLED"
               /\ r.dbOrders[o[1].event_id][1].price = notices[1].price
               /\ \A e \in EventIds \ {o[1].event_id} : r.dbOrders[e] = dbOrders[e]
               /\ r.redisOrders[sid][sym] = None
               /\ fill.published = notices
               /\ CountOf(fill.effects, "ledger") = 1
               /\ CountOf(fill.effects, "mirror") = 2
               /\ CountOf(fill.effects, "publish") = 1
               /\ fill.dbOrders = r.dbOrders
               /\ fill.redisOrders[sid][sym] = None
               /\ fill.redisPositions[sid][sym] # None
               /\ fill.redisPositions[sid][sym] = fill.positions[sid][sym]
               /\ fill.redisPositions[sid][sym][1].entry_price = notices[1].price
               /\ Len(r.dbTrades) = Len(dbTrades)
                    => r.redisPositions[sid][sym] = fill.redisPositions[sid][sym]

W_C12_FilledAndMirrored ==
    \E sid \in Strategies, sym \in Symbols :
        /\ effects = <<"memory", "publish", "ledger", "mirror", "mirror">>
        /\ Len(published) = 1
        /\ published[1].status = "FILLED"
        /\ dbOrders[published[1].order_id] # None
        /\ redisOrders[sid][sym] = None
        /\ redisPositions[sid][sym] # None
        /\ redisPositions[sid][sym] = positions[sid][sym]

\* The position-state notice of a TP/SL update carries the resulting bounds.
NoticeCarriesBounds(r, sid, sym) ==
    /\ Len(r.published) = 1
    /\ r.published[1].event_type = "PositionStateEvent"
    /\ r.published[1].stop_loss = r.positions[sid][sym][1].stop_loss
    /\ r.published[1].take_profit = r.positions[sid][sym][1].take_profit

\* C13: a TP/SL update request built as a StrategySetTPSLEvent with take_profit
\* alone leaves the Position's stop_loss as it was and sets take_profit, one built
\* with stop_loss alone leaves take_profit as it was and sets stop_loss, and the
\* position-state notice carries the resulting bounds.
C13_UpdateKeepsAbsentBound ==
    \A sid \in Strategies, sym \in Symbols, v \in Prices :
        LET p == positions[sid][sym]
            tpOnly == After(SetTPSLDict(sid, sym, None, Some(v)))
            slOnly == After(SetTPSLDict(sid, sym, Some(v), None))
        IN  p # None
            => /\ tpOnly.positions[sid][sym] # None
               /\ tpOnly.positions[sid][sym][1].stop_loss = p[1].stop_loss
               /\ tpOnly.positions[sid][sym][1].take_profit = Some(v)
               /\ NoticeCarriesBounds(tpOnly, sid, sym)
               /\ slOnly.positions[sid][sym] # None
               /\ slOnly.positions[sid][sym][1].take_profit = p[1].take_profit
               /\ slOnly.positions[sid][sym][1].stop_loss = Some(v)
               /\ NoticeCarriesBounds(slOnly, sid, sym)

\* The handler that left r changed nothing and published nothing.
NothingChanged(r) ==
    /\ r.orders = orders
    /\ r.positions = positions
    /\ r.redisOrders = redisOrders
    /\ r.redisPositions = redisPositions
    /\ r.dbOrders = dbOrders
    /\ r.dbTrades = dbTrades
    /\ r.published = <<>>
    /\ r.effects = <<>>

\* C14: a TP/SL update request for a slot without a Position (empty, or holding
\* a PendingOrder only) changes neither memory nor the Mirror nor the Ledger and
\* publishes nothing.
C14_UpdateWithoutPositionIsNoOp ==
    \A data \in SetTPSLs :
        positions[data.strategy_id][data.symbol] = None => NothingChanged(After(data))

\* A slot with a PendingOrder and no Position, as a handler that did nothing
\* left it, where a TP/SL update request that carries both bounds does nothing.
W_C14_UpdateDroppedOnPendingOrder ==
    \E sid \in Strategies, sym \in Symbols :
        /\ positions[sid][sym] = None
        /\ orders[sid][sym] # None
        /\ redisOrders[sid][sym] = orders[sid][sym]
        /\ published = <<>>
        /\ effects = <<>>
        /\ NothingChanged(After(SetTPSLDict(sid, sym, Some(1), Some(MaxPrice))))

\* C15: a CLOSE signal handled right after a tick of its slot closes the slot's
\* Position at once: one ClosedTrade with reason SIGNAL whose exit_price is a
\* price of that tick (within its low .. high) and whose pnl follows from that
\* exit_price; for a slot without a Position it changes nothing.
C15_CloseSignalAtMarket ==
    \A tick \in Candles, data \in CloseSignals :
        LET sid == data.strategy_id
            sym == data.symbol
            r == After(tick)
            c == Replay(r, data)
            p == r.positions[sid][sym]
            row == Last(c.dbTrades)
        IN  (tick.strategy_id = sid /\ tick.symbol = sym
                /\ tick.low <= tick.open /\ tick.open <= tick.high)
            => IF p # None
               THEN /\ Len(c.dbTrades) = Len(r.dbTrades) + 1
                    /\ c.positions[sid][sym] = None
                    /\ row.reason = "SIGNAL"
                    /\ tick.low <= row.exit_price /\ row.exit_price <= tick.high
                    /\ row.pnl = IF p[1].side = "LONG"
                                 THEN row.exit_price - p[1].entry_price
                                 ELSE p[1].entry_price - row.exit_price
               ELSE /\ c.orders = r.orders
                    /\ c.positions = r.positions
                    /\ c.redisOrders = r.redisOrders
                    /\ c.redisPositions = r.redisPositions
                    /\ c.dbOrders = r.dbOrders
                    /\ c.dbTrades = r.dbTrades
                    /\ c.published = <<>>

\* C16: the PendingOrder of a slot stays in the slot as it is (order_id, kind,
\* limit price, stop_loss, take_profit) through every signal, tick and TP/SL
\* update request, until a tick fills it.
C16_PendingOrderStaysUntilFilled ==
    \A data \in OpenSignals \cup CloseSignals \cup Candles \cup SetTPSLs :
        LET sid == data.strategy_id
            sym == data.symbol
            o == orders[sid][sym]
            r == After(data)
        IN  o # None
            => \/ r.orders[sid][sym] = o
               \/ /\ data.event_type = "CandleUpdateEvent"
                  /\ r.orders[sid][sym] = None
                  /\ r.fillLog = Append(fillLog, [strategy_id |-> sid, symbol |-> sym,
                                                  order_id |-> o[1].event_id])

\* The place of an effect in the order memory, Ledger, Mirror, notice.
RankOf(kind) ==
    CASE kind = "memory" -> 1
      [] kind = "ledger" -> 2
      [] kind = "mirror" -> 3
      [] kind = "publish" -> 4

InOrder(seq) == \A i, j \in 1 .. Len(seq) : i < j => RankOf(seq[i]) <= RankOf(seq[j])

\* C17: the effects of a handler that makes one transition of a slot (a fill, a
\* close or a TP/SL update) come in the order: in-memory mutation, Ledger write,
\* Mirror write, notice.
C17_EffectsInOrder ==
    \A data \in Candles \cup CloseSignals \cup SetTPSLs :
        LET r == After(data)
        IN  CountOf(r.effects, "memory") = 1 => InOrder(r.effects)

\* The store calls (Ledger, Mirror, channel) of the handler of data, in order, when
\* none of them fails.
CallsOf(data) == SelectSeq(After(data).effects, LAMBDA x : x # "memory")

\* Call number failAt of the handler of data is a Ledger write.
LedgerWriteFails(data, failAt) ==
    /\ failAt \in 1 .. Len(CallsOf(data))
    /\ CallsOf(data)[failAt] = "ledger"

\* The failing Ledger write is the order record of a fill (the first Ledger write
\* of a handler that fills); otherwise it is the ClosedTrade of a close.
FillWriteFails(data, failAt) ==
    /\ LedgerWriteFails(data, failAt)
    /\ After(data).fillLog # fillLog
    /\ CountOf(SubSeq(CallsOf(data), 1, failAt), "ledger") = 1

CloseWriteFails(data, failAt) ==
    LedgerWriteFails(data, failAt) /\ ~FillWriteFails(data, failAt)

\* C18: when the Ledger write of a fill fails, no order-execution notice has been
\* published and the Mirror is as it was; when the Ledger write of a close
\* fails, no trade-terminal and no FLAT notice has been published and the
\* Mirror's position key is as the handler's fill, if any, or else the handlers
\* before left it.
C18_NoNoticeWithoutLedger ==
    \A data \in FaultMessages : \A failAt \in FailPointsOf(data) :
        LET sid == data.strategy_id
            sym == data.symbol
            r == HandleEvent(Begin(failAt), data)
        IN  /\ FillWriteFails(data, failAt)
                => /\ r.failed
                   /\ NoticesOf(r.published, "OrderExecutionEvent") = <<>>
                   /\ r.redisOrders = redisOrders
                   /\ r.redisPositions = redisPositions
            /\ CloseWriteFails(data, failAt)
                => /\ r.failed
                   /\ NoticesOf(r.published, "TradeTerminalEvent") = <<>>
                   /\ NoticesOf(r.published, "PositionStateEvent") = <<>>
                   /\ r.dbTrades = dbTrades
                   /\ r.redisPositions
                        = IF After(data).fillLog # fillLog
                          THEN [redisPositions EXCEPT ![sid][sym] = r.positions[sid][sym]]
                          ELSE redisPositions

\* Call number failAt of the handler of data is a Ledger or a Mirror write.
StoreWriteFails(data, failAt) ==
    /\ failAt \in 1 .. Len(CallsOf(data))
    /\ CallsOf(data)[failAt] \in {"ledger", "mirror"}

\* C19: when a Ledger or Mirror write of a fill fails, the slot holds the new
\* Position and no PendingOrder in memory; when a Ledger or Mirror write of a
\* close fails, the slot holds no Position in memory.
C19_MemoryAheadOfStores ==
    \A data \in FaultCandles \cup CloseSignals : \A failAt \in FailPointsOf(data) :
        LET sid == data.strategy_id
            sym == data.symbol
            r == HandleEvent(Begin(failAt), data)
            filled == After(data).fillLog # fillLog
            \* A fill makes the first four store calls of its handler.
            inFill == filled /\ failAt <= 4
        IN  StoreWriteFails(data, failAt)
            => /\ r.failed
               /\ IF inFill
                  THEN /\ r.orders[sid][sym] = None
                       /\ r.positions[sid][sym]
                            = CheckOrderFill(Begin(0), sid, sym, orders[sid][sym][1],
                                             data).positions[sid][sym]
                       /\ r.positions[sid][sym] # None
                  ELSE r.positions[sid][sym] = None

\* C20: a signal or a tick that lacks a required key (strategy_id, symbol,
\* action; strategy_id, symbol, open, high, low, close, timestamp) is dropped:
\* memory, the Mirror and the Ledger are as before and nothing is published; and
\* the message after a dropped one is handled as after any other.
C20_MalformedMessageDropped ==
    /\ \A data \in MalformedSignals \cup MalformedCandles :
            NothingChanged(After(data))
    /\ \A data \in OpenSignals :
            After(data).orders[data.strategy_id][data.symbol] # None

\* C21: an event whose event_type is none of StrategySignalEvent,
\* CandleUpdateEvent, StrategySetTPSLEvent (a notice of the engine itself that
\* the channel gives back, or an event of another producer) changes neither
\* memory nor the Mirror nor the Ledger, publishes nothing and raises nothing.
C21_OtherEventsIgnored ==
    \A data \in OtherEvents \cup {published[i] : i \in 1 .. Len(published)} :
        LET r == After(data)
        IN  NothingChanged(r) /\ ~r.failed

\* The three kinds of notice came back after a handler that filled an order
\* and closed the Position; handling any of them changes nothing.
W_C21_NoticesInFlight ==
    \E sid \in Strategies, sym \in Symbols :
        /\ Len(published) = 3
        /\ published[1].event_type = "OrderExecutionEvent"
        /\ published[2].event_type = "TradeTerminalEvent"
        /\ published[3].event_type = "PositionStateEvent"
        /\ \A i \in 1 .. 3 : NothingChanged(After(published[i]))

\* The Mirror holds what memory holds: the same fields, with equal values.
MirrorEqualsMemory(r) == r.redisOrders = r.orders /\ r.redisPositions = r.positions

\* C22: a handler that starts with the Mirror equal to memory (as the empty
\* engine is) and in which no Mirror or Ledger write fails ends with the Mirror
\* equal to memory: the orders hash has a symbol iff the orders map has it, the
\* positions hash iff the positions map, and the values are equal.
C22_MirrorFollowsMemory ==
    \A data \in FaultMessages : \A failAt \in FailPointsOf(data) :
        LET r == HandleEvent(Begin(failAt), data)
        IN  (MirrorEqualsMemory(Begin(0)) /\ ~StoreWriteFails(data, failAt))
            => MirrorEqualsMemory(r)

\* C23: the Position a fill creates has side LONG for an OPEN_LONG order and
\* SHORT for an OPEN_SHORT order, size 1 and the order's stop_loss and
\* take_profit; the order-execution notice has side BUY for LONG and SELL for
\* SHORT, and qty 1.
C23_PositionOfFill ==
    \A data \in Candles :
        LET sid == data.strategy_id
            sym == data.symbol
            o == orders[sid][sym]
            r == After(data)
            p == CheckOrderFill(Begin(0), sid, sym, o[1], data).positions[sid][sym]
            notice == r.published[1]
        IN  r.fillLog # fillLog
            => /\ p # None
               /\ o[1].action = "OPEN_LONG" => p[1].side = "LONG" /\ notice.side = "BUY"
               /\ o[1].action = "OPEN_SHORT" => p[1].side = "SHORT" /\ notice.side = "SELL"
               /\ p[1].size = 1
               /\ p[1].stop_loss = o[1].stop_loss
               /\ p[1].take_profit = o[1].take_profit
               /\ notice.event_type = "OrderExecutionEvent"
               /\ notice.qty = 1
               /\ Len(r.dbTrades) = Len(dbTrades) => r.positions[sid][sym] = p

W_C23_ShortPositionOfFill ==
    \E sid \in Strategies, sym \in Symbols :
        /\ Len(published) = 1
        /\ published[1].event_type = "OrderExecutionEvent"
        /\ published[1].side = "SELL"
        /\ published[1].qty = 1
        /\ positions[sid][sym] # None
        /\ positions[sid][sym][1].side = "SHORT"
        /\ positions[sid][sym][1].size = 1
        /\ positions[sid][sym][1].stop_loss = Some(MaxPrice)
        /\ positions[sid][sym][1].take_profit = Some(1)

\* C24: an OPEN signal handled for a slot with no PendingOrder and no Position
\* creates a PendingOrder of kind MARKET when the signal has no price, and of
\* kind LIMIT at the signal's price when it has one, whatever the price.
C24_KindOfOrder ==
    \A data \in OpenSignals :
        LET sid == data.strategy_id
            sym == data.symbol
            o == After(data).orders[sid][sym]
        IN  (orders[sid][sym] = None /\ positions[sid][sym] = None)
            => /\ o # None
               /\ o[1].event_id = data.event_id
               /\ o[1].action = data.action
               /\ o[1].price = data.price
               /\ o[1].order_type = IF data.price = None THEN "MARKET" ELSE "LIMIT"

\* C25: the hash state:{strategy_id}:orders has at field symbol the slot's
\* PendingOrder and the hash state:{strategy_id}:positions its Position; the
\* field is absent exactly when the slot has none.
C25_MirrorKeys ==
    \A sid \in Strategies, sym \in Symbols :
        /\ Hget(<<"state", sid, "orders">>, sym) = orders[sid][sym]
        /\ Hget(<<"state", sid, "positions">>, sym) = positions[sid][sym]

\* C26: every signal and every TP/SL update request the strategy has published
\* was published on a topic the engine is subscribed to and has arrived at the
\* engine's subscription, where run() takes it.
C26_SignalsReachEngine ==
    \A i \in 1 .. Len(trace.sent) :
        LET m == trace.sent[i]
        IN  m.data.event_type \in {"StrategySignalEvent", "StrategySetTPSLEvent"}
            => /\ "engine" \in SubscribersOf(m.topic)
               /\ \E j \in 1 .. Len(trace.arrived) : trace.arrived[j] = m.data

\* C27: every order-execution and position-state notice the engine publishes
\* (the FLAT notice of a close too) goes to a subscription of the strategy
\* process, whose handlers keep its positions and active_orders caches.
C27_NoticesReachStrategy ==
    \A i \in 1 .. Len(published) :
        published[i].event_type \in {"OrderExecutionEvent", "PositionStateEvent"}
            => "strategy" \in SubscribersOf(TopicOfNotice)

\* C28: the engine handles the messages of its subscription one at a time in
\* the order of their arrival: what has arrived is what has been handled, in
\* that order, followed by what waits in the queue; the notices of a handler
\* arrive before the next message is taken.
C28_HandledInArrivalOrder ==
    /\ trace.arrived = trace.handled \o inbox
    /\ \A i \in 1 .. Len(published) :
            \E j \in 1 .. Len(trace.arrived) : trace.arrived[j] = published[i]

\* Two messages have been handled, the second a tick that filled the order of
\* the first, and the notice of the fill waits in the queue.
W_C28_FillHandledInOrder ==
    /\ Len(trace.handled) = 2
    /\ trace.handled[1].event_type = "StrategySignalEvent"
    /\ trace.handled[2].event_type = "CandleUpdateEvent"
    /\ Len(fillLog) = 1
    /\ inbox # <<>>
    /\ inbox[1].event_type = "OrderExecutionEvent"

\* The candles the strategy has published for a symbol, in order.
CandlesSent(sym) ==
    SelectSeq(trace.sent, LAMBDA m : m.data.event_type = "CandleUpdateEvent"
                                     /\ m.data.symbol = sym)

\* C29: the candles the strategy publishes for a symbol have strictly increasing
\* timestamps, so none is published twice, whatever timestamps the exchange
\* returns to the calls of get_historical_data.
C29_CandlesInTimeOrder ==
    \A sym \in Symbols :
        \A i, j \in 1 .. Len(CandlesSent(sym)) :
            i < j => CandlesSent(sym)[i].data.timestamp < CandlesSent(sym)[j].data.timestamp

\* Two candles published, and a call since that returned an older candle than
\* the last published one can only have failed to push.
W_C29_TwoCandlesPublished ==
    \E sym \in Symbols :
        /\ Len(CandlesSent(sym)) = 2
        /\ CandlesSent(sym)[1].data.timestamp = 1
        /\ CandlesSent(sym)[2].data.timestamp = 2
        /\ lastProcessed[sym] = Some(1000 * MaxTs)

\* C30: the trigger_type of the trade-terminal notice of a close is the reason
\* of the ClosedTrade the same close wrote to the Ledger, for the reasons SL, TP
\* and SIGNAL.
C30_TriggerTypeIsReason ==
    \A data \in Candles \cup CloseSignals :
        LET r == After(data)
            terminal == NoticesOf(r.published, "TradeTerminalEvent")
        IN  Len(r.dbTrades) > Len(dbTrades)
            => /\ Len(terminal) = 1
               /\ terminal[1].trigger_type = Last(r.dbTrades).reason

\* C31: a tick that fills the slot's order and reaches the stop-loss or the
\* take-profit of the Position it creates also closes that Position: the
\* handler ends with one more fill, one more ClosedTrade and no Position.
C31_FilledAndClosedBySameTick ==
    \A data \in Candles :
        LET sid == data.strategy_id
            sym == data.symbol
            o == orders[sid][sym]
            r == After(data)
            p == CheckOrderFill(Begin(0), sid, sym, o[1], data).positions[sid][sym]
        IN  (r.fillLog # fillLog
                /\ (StopLossHolds(p[1], data) \/ TakeProfitHolds(p[1], data)))
            => /\ r.positions[sid][sym] = None
               /\ Len(r.dbTrades) = Len(dbTrades) + 1
               /\ Last(r.dbTrades).entry_price = p[1].entry_price
               /\ Last(r.dbTrades).side = p[1].side
               /\ Last(r.dbTrades).reason \in {"SL", "TP"}

(***************************************************************************)
(* SpecSlots: the engine with two strategies of two symbols each, every    *)
(* store call succeeding.  The event_id of a signal is the      *)
(* uuid4 string its constructor draws, so the signals of different slots    *)
(* have different ids.                                                      *)
(***************************************************************************)
\* Largest number of order fills in one behaviour of SpecSlots.
MaxSlotFills == 1

SlotStrategies == {"s1", "s2"}
SlotSymbols == {"X", "Y"}

SlotEventId(strategy_id, symbol) ==
    CASE strategy_id = "s1" /\ symbol = "X" -> "e1"
      [] strategy_id = "s1" /\ symbol = "Y" -> "e2"
      [] strategy_id = "s2" /\ symbol = "X" -> "e3"
      [] OTHER -> "e4"

SlotEventIds == {SlotEventId(sid, sym) : sid \in SlotStrategies, sym \in SlotSymbols}

SlotsEmptyMap == [sid \in SlotStrategies |-> [sym \in SlotSymbols |-> None]]

InitSlots ==
    /\ orders = SlotsEmptyMap
    /\ positions = SlotsEmptyMap
    /\ redisOrders = SlotsEmptyMap
    /\ redisPositions = SlotsEmptyMap
    /\ dbOrders = [e \in SlotEventIds |-> None]
    /\ dbTrades = <<>>
    /\ published = <<>>
    /\ effects = <<>>
    /\ failed = FALSE
    /\ fillLog = <<>>
    /\ inbox = <<>>
    /\ lastProcessed = [sym \in Symbols |-> None]
    /\ trace = [sent |-> <<>>, arrived |-> <<>>, handled |-> <<>>, count |-> 0]
    /\ eventBus = NewEventBus
    /\ mockBus = NewMockBus
    /\ history = NewHistory

\* The slots that receive events: two with the same symbol under different
\* strategies and two with different symbols under the same strategy.
Slots == {<<"s1", "X">>, <<"s1", "Y">>, <<"s2", "X">>}

SlotOpenSignals ==
    {SignalEvent(SlotEventId(slot[1], slot[2]), slot[1], slot[2], a, p, None, None) :
        slot \in Slots, a \in OpenActions, p \in {None, Some(1)}}

SlotCloseSignals ==
    {SignalEvent(SlotEventId(slot[1], slot[2]), slot[1], slot[2], "CLOSE_LONG",
                 None, None, None) :
        slot \in Slots}

\* The ticks of an exchange: low <= open <= high.
SlotCandles ==
    {c \in {CandleEvent(slot[1], slot[2], o, h, l) :
                slot \in Slots, o \in Prices, h \in Prices, l \in Prices} :
        c.low <= c.open /\ c.open <= c.high}

SlotSetTPSLs ==
    {SetTPSLDict(slot[1], slot[2], Some(1), None) : slot \in Slots}

SlotEvents == SlotOpenSignals \cup SlotCloseSignals \cup SlotCandles \cup SlotSetTPSLs

SlotOpenSignal ==
    \E data \in SlotOpenSignals :
        /\ data.event_type = "StrategySignalEvent"
        /\ Handle(data, 0, MaxSlotFills)

SlotCloseSignal ==
    \E data \in SlotCloseSignals :
        /\ data.event_type = "StrategySignalEvent"
        /\ Handle(data, 0, MaxSlotFills)

SlotCandle ==
    \E data \in SlotCandles :
        /\ data.event_type = "CandleUpdateEvent"
        /\ Handle(data, 0, MaxSlotFills)

SlotSetTPSL ==
    \E data \in SlotSetTPSLs :
        /\ data.event_type = "StrategySetTPSLEvent"
        /\ Handle(data, 0, MaxSlotFills)

NextSlots ==
    \/ SlotOpenSignal
    \/ SlotCloseSignal
    \/ SlotCandle
    \/ SlotSetTPSL

SpecSlots == InitSlots /\ [][NextSlots]_vars

\* The rows of a Ledger table (a sequence of rows) that belong to a slot.
RowsOfSlot(rows, strategy_id, symbol) ==
    SelectSeq(rows, LAMBDA row : row.strategy_id = strategy_id /\ row.symbol = symbol)

\* The rows of the orders table that belong to a slot, by order_id.
OrderRowsOfSlot(table, strategy_id, symbol) ==
    {e \in DOMAIN table : /\ table[e] # None
                          /\ table[e][1].strategy_id = strategy_id
                          /\ table[e][1].symbol = symbol}

\* C32: the handler of an event for a slot leaves the order, the Position, the
\* Mirror fields and the Ledger rows of every other slot as they were, whether
\* the other slot shares the symbol or the strategy_id.
C32_OtherSlotsUnchanged ==
    \A data \in SlotEvents :
        \A sid \in DOMAIN orders :
            \A sym \in DOMAIN orders[sid] :
                LET r == After(data)
                IN  (sid # data.strategy_id \/ sym # data.symbol)
                    => /\ r.orders[sid][sym] = orders[sid][sym]
                       /\ r.positions[sid][sym] = positions[sid][sym]
                       /\ r.redisOrders[sid][sym] = redisOrders[sid][sym]
                       /\ r.redisPositions[sid][sym] = redisPositions[sid][sym]
                       /\ OrderRowsOfSlot(r.dbOrders, sid, sym)
                              = OrderRowsOfSlot(dbOrders, sid, sym)
                       /\ \A e \in OrderRowsOfSlot(dbOrders, sid, sym) :
                              r.dbOrders[e] = dbOrders[e]
                       /\ RowsOfSlot(r.dbTrades, sid, sym) = RowsOfSlot(dbTrades, sid, sym)

\* A slot holds a Position, mirrored and with its order row in the Ledger, while
\* the slot of the same symbol under the other strategy and the slot of the
\* other symbol under the same strategy each hold an order.
W_C32_ThreeSlotsBusy ==
    /\ positions["s1"]["X"] # None
    /\ redisPositions["s1"]["X"] = positions["s1"]["X"]
    /\ dbOrders["e1"] # None
    /\ orders["s2"]["X"] # None
    /\ orders["s1"]["Y"] # None
    /\ redisOrders["s1"]["Y"] = orders["s1"]["Y"]

\* The CLOSE action that names a side.
ClosingActionOf(side) == IF side = "LONG" THEN "CLOSE_LONG" ELSE "CLOSE_SHORT"

\* C33: a CLOSE signal closes the slot's Position whatever its side: the slot is
\* flat, one ClosedTrade is added with the Position's side and with the pnl of
\* that side (exit - entry for LONG, entry - exit for SHORT), and the handler
\* leaves the engine exactly as the CLOSE signal naming the Position's side does.
C33_CloseSignalWhateverSide ==
    \A data \in CloseSignals :
        LET sid == data.strategy_id
            sym == data.symbol
            p == positions[sid][sym]
            r == After(data)
            t == Last(r.dbTrades)
        IN  p # None
            => /\ r.positions[sid][sym] = None
               /\ Len(r.dbTrades) = Len(dbTrades) + 1
               /\ t.side = p[1].side
               /\ t.reason = "SIGNAL"
               /\ t.pnl = IF p[1].side = "LONG"
                          THEN (t.exit_price - p[1].entry_price) * p[1].size
                          ELSE (p[1].entry_price - t.exit_price) * p[1].size
               /\ r = After([data EXCEPT !.action = ClosingActionOf(p[1].side)])

\* A SHORT Position has just been closed by a signal, which CLOSE_LONG also does.
W_C33_ShortClosedBySignal ==
    /\ Len(dbTrades) = 1
    /\ dbTrades[1].side = "SHORT"
    /\ dbTrades[1].reason = "SIGNAL"
    /\ Len(published) = 2
    /\ published[1].event_type = "TradeTerminalEvent"
    /\ \A sid \in Strategies, sym \in Symbols : positions[sid][sym] = None

\* The rows of the orders table.
OrdersTable(table) == {table[k][1] : k \in {k \in DOMAIN table : table[k] # None}}

\* C34: every handler leaves the orders table with at most one row per order_id,
\* one for each order_id filled so far, removes no order row, keeps every trades
\* row where it was and as it was, and adds one trades row for each close.
C34_LedgerWrites ==
    [][/\ \A r1, r2 \in OrdersTable(dbOrders') : r1.order_id = r2.order_id => r1 = r2
       /\ {row.order_id : row \in OrdersTable(dbOrders')}
              = {fillLog'[i].order_id : i \in 1 .. Len(fillLog')}
       /\ \A k \in DOMAIN dbOrders : dbOrders[k] # None => dbOrders'[k] # None
       /\ Len(dbTrades') = Len(dbTrades)
              + Len(NoticesOf(published', "TradeTerminalEvent"))
       /\ SubSeq(dbTrades', 1, Len(dbTrades)) = dbTrades]_vars

\* The order of one signal has filled twice, so that its row was saved twice, and
\* the trades table holds a row that an earlier handler wrote.
W_C34_OrderRowSavedTwice ==
    /\ Len(fillLog) = 2
    /\ fillLog[1].order_id = fillLog[2].order_id
    /\ Cardinality(OrdersTable(dbOrders)) = 1
    /\ Len(dbTrades) >= 1
    /\ NoticesOf(published, "TradeTerminalEvent") = <<>>

(***************************************************************************)
(* SpecBus: an EventBus, the thread that subscribes handlers, starts and    *)
(* stops it, the publishers whose messages reach its pubsub connection and  *)
(* its listener thread, one step per statement of _listen that reads or    *)
(* writes what the other thread does.  The strategy subscribes before it    *)
(* starts the bus.                                                         *)
(***************************************************************************)
\* Largest number of messages that reach the pubsub connection in one behaviour
\* of SpecBus, and largest number of subscribe calls.
MaxBusMessages == 3
MaxSubscriptions == 2

\* json.dumps of a dictionary, and a text that is not JSON.
JsonDumps(data) == <<"json", data>>
NotJson == <<"text">>

\* json.loads: the dictionary, or None when it raises JSONDecodeError.
JsonLoads(text) == IF text[1] = "json" THEN Some(text[2]) ELSE None

BusTexts == {JsonDumps("d"), NotJson}

busRest == <<orders, positions, redisOrders, redisPositions, dbOrders, dbTrades,
             published, effects, failed, fillLog, inbox, lastProcessed, trace,
             mockBus, history>>

SubscriptionCount(handlers) ==
    Len(handlers["OrderUpdateEvent"]) + Len(handlers["PositionUpdateEvent"])

\* subscribe: the handler goes to the end of the topic's list.
BusSubscribe ==
    \E topic \in BusTopics, handler \in BusHandlers :
        /\ eventBus.pc = "init"
        /\ SubscriptionCount(eventBus.handlers) < MaxSubscriptions
        /\ eventBus' = [eventBus EXCEPT !.handlers[topic] = Append(@, handler)]
        /\ UNCHANGED busRest

\* start: running = True and the listener thread begins _listen.
BusStart ==
    /\ eventBus.pc = "init"
    /\ eventBus' = [eventBus EXCEPT !.running = TRUE, !.pc = "listen"]
    /\ UNCHANGED busRest

\* A publisher's message on a subscribed topic reaches the pubsub connection.
BusArrive ==
    \E topic \in BusTopics, text \in BusTexts :
        /\ eventBus.handlers[topic] # <<>>
        /\ ~eventBus.closed
        /\ eventBus.arrivals < MaxBusMessages
        /\ eventBus' = [eventBus EXCEPT
                           !.arrivals = @ + 1,
                           !.queue = Append(@, [n |-> eventBus.arrivals + 1,
                                                channel |-> topic, data |-> text])]
        /\ UNCHANGED busRest

\* for message in self.pubsub.listen(): the next message of the connection.
ListenerTakes ==
    /\ eventBus.pc = "listen"
    /\ ~eventBus.closed
    /\ eventBus.queue # <<>>
    /\ eventBus' = [eventBus EXCEPT !.message = Some(Head(eventBus.queue)),
                                    !.queue = Tail(@), !.pc = "check"]
    /\ UNCHANGED busRest

\* listen() on the closed connection ends the loop and the thread.
ListenerEnds ==
    /\ eventBus.pc = "listen"
    /\ eventBus.closed
    /\ eventBus' = [eventBus EXCEPT !.pc = "done"]
    /\ UNCHANGED busRest

\* if not self.running: break; json.loads; if topic in self.handlers.
ListenerChecks ==
    /\ eventBus.pc = "check"
    /\ LET m == eventBus.message[1]
       IN  eventBus' =
               IF ~eventBus.running
               THEN [eventBus EXCEPT !.pc = "done", !.message = None]
               ELSE IF JsonLoads(m.data) = None \/ eventBus.handlers[m.channel] = <<>>
               THEN [eventBus EXCEPT !.pc = "listen", !.message = None,
                                     !.handled = Append(@, m)]
               ELSE [eventBus EXCEPT !.pc = "dispatch", !.next = 1]
    /\ UNCHANGED busRest

\* NextHandler leaving the loop when the handler raised: C35 does not hold of it.
NextHandlerStoppingOnError(next, count, raised) == IF raised THEN count + 1 ELSE next + 1

\* The for loop over self.handlers[topic]: an exception of the handler is caught
\* inside the loop, which goes on with the next handler.
NextHandler(next, count, raised) == next + 1

\* handler(data) for the handler the loop has come to; it returns or raises.
ListenerInvokes ==
    \E raised \in BOOLEAN :
        /\ eventBus.pc = "dispatch"
        /\ LET m == eventBus.message[1]
               list == eventBus.handlers[m.channel]
               after == NextHandler(eventBus.next, Len(list), raised)
               called == [eventBus EXCEPT
                             !.log = Append(@, [n |-> m.n,
                                                handler |-> list[eventBus.next],
                                                data |-> JsonLoads(m.data)[1],
                                                raised |-> raised,
                                                afterStop |-> eventBus.stopped]),
                             !.next = after]
           IN  eventBus' = IF after > Len(list)
                           THEN [called EXCEPT !.pc = "listen", !.message = None,
                                               !.handled = Append(@, m)]
                           ELSE called
        /\ UNCHANGED busRest

\* stop: running = False, unsubscribe, close; the thread is not joined.
BusStop ==
    /\ eventBus.pc # "init"
    /\ ~eventBus.stopped
    /\ eventBus' = [eventBus EXCEPT !.running = FALSE, !.closed = TRUE,
                                    !.stopped = TRUE]
    /\ UNCHANGED busRest

NextBus ==
    \/ BusSubscribe
    \/ BusStart
    \/ BusArrive
    \/ ListenerTakes
    \/ ListenerEnds
    \/ ListenerChecks
    \/ ListenerInvokes
    \/ BusStop

SpecBus == Init /\ [][NextBus]_vars

\* The handler invocations the listener made for a message, in order.
InvocationsOf(message) == SelectSeq(eventBus.log, LAMBDA call : call.n = message.n)

\* C35: for every message the listener has finished with, the handlers of its
\* topic were invoked once each, in subscription order and with the decoded
\* data, whether or not some of them raised, and none was invoked if the text
\* is not JSON; the listener ends only after stop(), and until then no message
\* that reached the connection is skipped.
C35_EveryHandlerInOrder ==
    /\ \A i \in 1 .. Len(eventBus.handled) :
           LET m == eventBus.handled[i]
               calls == InvocationsOf(m)
           IN  IF JsonLoads(m.data) = None
               THEN calls = <<>>
               ELSE /\ [j \in 1 .. Len(calls) |-> calls[j].handler]
                           = eventBus.handlers[m.channel]
                    /\ \A j \in 1 .. Len(calls) : calls[j].data = JsonLoads(m.data)[1]
    /\ \A i \in 1 .. Len(eventBus.handled) : eventBus.handled[i].n = i
    /\ eventBus.pc = "done" => eventBus.stopped
    /\ ~eventBus.stopped
           => Len(eventBus.handled) + Len(eventBus.queue)
                  + (IF eventBus.message # None THEN 1 ELSE 0) = eventBus.arrivals

\* A text that is not JSON was dropped, and the next message went to both
\* handlers of its topic although the first of them raised.
W_C35_SecondHandlerAfterRaise ==
    /\ Len(eventBus.handled) = 2
    /\ JsonLoads(eventBus.handled[1].data) = None
    /\ Len(eventBus.log) = 2
    /\ eventBus.log[1].n = 2
    /\ eventBus.log[1].raised
    /\ eventBus.log[2].n = 2
    /\ ~eventBus.stopped

\* C36: no handler invocation starts after stop() has returned.
C36_NoInvocationAfterStop ==
    \A i \in 1 .. Len(eventBus.log) : ~eventBus.log[i].afterStop

\* r.hgetall(key): the fields of the hash with their values.
Hgetall(key) ==
    [field \in {f \in Symbols : Hget(key, f) # None} |-> Hget(key, field)[1]]

\* InstrumentStatus looking at the orders hash first: C37 does not hold of it.
InstrumentStatusOrdersFirst(sid, sym) ==
    LET strategy_orders == Hgetall(RedisKey(sid, "orders"))
        strategy_positions == Hgetall(RedisKey(sid, "positions"))
    IN  IF sym \in DOMAIN strategy_orders THEN "PENDING"
        ELSE IF sym \in DOMAIN strategy_positions THEN "INTRADE"
        ELSE "WAIT"

\* list_instruments: the status of a symbol of strategy sid's meta.
InstrumentStatus(sid, sym) ==
    LET strategy_orders == Hgetall(RedisKey(sid, "orders"))
        strategy_positions == Hgetall(RedisKey(sid, "positions"))
    IN  IF sym \in DOMAIN strategy_positions THEN "INTRADE"
        ELSE IF sym \in DOMAIN strategy_orders THEN "PENDING"
        ELSE "WAIT"

\* C37: the status the API reports for a slot is INTRADE when the Mirror has a
\* position field for it, with or without an order field, PENDING when it has
\* only an order field, and WAIT when it has neither.
C37_StatusOfSlot ==
    \A sid \in Strategies, sym \in Symbols :
        LET hasPosition == redisPositions[sid][sym] # None
            hasOrder == redisOrders[sid][sym] # None
        IN  InstrumentStatus(sid, sym)
                = CASE hasPosition -> "INTRADE"
                    [] ~hasPosition /\ hasOrder -> "PENDING"
                    [] OTHER -> "WAIT"

\* The Mirror holds an order field and a position field for the same slot, and
\* the API reports INTRADE.
W_C37_BothHashesHaveSymbol ==
    \E sid \in Strategies, sym \in Symbols :
        /\ redisPositions[sid][sym] # None
        /\ redisOrders[sid][sym] # None
        /\ InstrumentStatus(sid, sym) = "INTRADE"

(***************************************************************************)
(* SpecHistory: the strategy's calls of get_historical_data for one symbol  *)
(* and timeframe, each with the candle that follows the last one, and the   *)
(* Redis list the candles are pushed to.  A call in which rpush, ltrim or   *)
(* publish raises ends there; the main loop catches the exception.          *)
(***************************************************************************)
\* ltrim(r_key, -200, -1)
HistoryCap == 200
\* Largest number of calls with a new candle in one behaviour of SpecHistory, and
\* largest number of them in which a Redis command raises.
MaxPushes == 202
MaxHistoryFaults == 1

\* LtrimLast keeping the oldest entries, as ltrim(key, 0, count - 1) does: C38
\* does not hold of it.
LtrimFirst(list, count) ==
    IF Len(list) <= count THEN list ELSE SubSeq(list, 1, count)

\* ltrim(key, -count, -1): the last count entries stay.
LtrimLast(list, count) ==
    IF Len(list) <= count THEN list ELSE SubSeq(list, Len(list) - count + 1, Len(list))

\* The timestamp in milliseconds of the candle after the last processed one.
NextTimestamp(last) == IF last = None THEN 1000 ELSE last[1] + 1000

\* get_historical_data with a new last candle: the timestamp is remembered, the
\* candle is pushed, the list trimmed and the candle published; raises names the
\* command that raises, if any.
PublishCandle ==
    \E sym \in Symbols, raises \in {"none", "rpush", "ltrim", "publish"} :
        LET ts == NextTimestamp(lastProcessed[sym])
            entry == SecondsOf(ts)
            pushed == [history EXCEPT !.list = Append(@, entry),
                                      !.pushed = Append(@, entry)]
            trimmed == [pushed EXCEPT !.list = LtrimLast(@, HistoryCap)]
        IN  /\ ts <= 1000 * MaxPushes
            /\ raises # "none" => history.faults < MaxHistoryFaults
            /\ IsNewCandle(lastProcessed[sym], ts)
            /\ lastProcessed' = [lastProcessed EXCEPT ![sym] = Some(ts)]
            /\ history' =
                   CASE raises = "rpush" ->
                            [history EXCEPT !.announced = FALSE, !.faults = @ + 1]
                     [] raises = "ltrim" ->
                            [pushed EXCEPT !.announced = FALSE, !.faults = @ + 1]
                     [] raises = "publish" ->
                            [trimmed EXCEPT !.announced = FALSE, !.faults = @ + 1]
                     [] OTHER -> [trimmed EXCEPT !.announced = TRUE]
            /\ UNCHANGED <<orders, positions, redisOrders, redisPositions, dbOrders,
                           dbTrades, published, effects, failed, fillLog, inbox,
                           trace, eventBus, mockBus>>

NextHistory == PublishCandle

SpecHistory == Init /\ [][NextHistory]_vars

\* C38: after a candle publication the list holds the last HistoryCap entries
\* pushed, or all of them if fewer were pushed, in push order.
C38_HistoryIsLastPushed ==
    history.announced
        => /\ Len(history.list) <= HistoryCap
           /\ Len(history.list) = IF Len(history.pushed) <= HistoryCap
                                  THEN Len(history.pushed) ELSE HistoryCap
           /\ \A i \in 1 .. Len(history.list) :
                  history.list[i]
                      = history.pushed[Len(history.pushed) - Len(history.list) + i]

\* More candles than the list keeps were pushed and the last call published.
W_C38_OldestDropped ==
    /\ history.announced
    /\ Len(history.pushed) > HistoryCap
    /\ Len(history.list) = HistoryCap
    /\ history.list[1] # history.pushed[1]

(***************************************************************************)
(* SpecMockBus: a MockBus, its subscribe and publish calls.  publish runs   *)
(* the handlers in the caller's thread; each handler returns or raises.     *)
(***************************************************************************)
\* Largest number of publish calls in one behaviour of SpecMockBus.
MaxMockPublished == 2

\* The topics the strategy publishes on or subscribes to in test mode.
MockTopics == BusTopics \cup {"StrategySignalEvent"}

mockRest == <<orders, positions, redisOrders, redisPositions, dbOrders, dbTrades,
              published, effects, failed, fillLog, inbox, lastProcessed, trace,
              eventBus, history>>

\* self._subscribers.get(topic, [])
MockSubscribersOf(bus, topic) ==
    IF topic \in DOMAIN bus.subscribers THEN bus.subscribers[topic] ELSE <<>>

\* self._subscribers.setdefault(topic, []).append(handler)
MockSubscribe ==
    \E topic \in BusTopics, handler \in BusHandlers :
        /\ SubscriptionCount(mockBus.subscribers) < MaxSubscriptions
        /\ mockBus' = [mockBus EXCEPT !.subscribers[topic] = Append(@, handler)]
        /\ UNCHANGED mockRest

\* The handlers the loop of publish invokes when the handler number firstRaising
\* raises (0: none does): the exception is raised again, which ends the loop.
InvokedHandlers(handlers, firstRaising) ==
    IF firstRaising = 0 THEN handlers ELSE SubSeq(handlers, 1, firstRaising)

\* Propagates with the exception of a handler logged and dropped: C39 does not
\* hold of it.
PropagatesNever(firstRaising) == FALSE

\* Whether publish raises: "raise" in both except clauses.
Propagates(firstRaising) == firstRaising # 0

\* publish: the message is appended to published, then the handlers of the topic,
\* as they are at that moment, are invoked in order.
MockPublish ==
    \E topic \in MockTopics, data \in {"d"} :
        \E firstRaising \in 0 .. Len(MockSubscribersOf(mockBus, topic)) :
            LET handlers == MockSubscribersOf(mockBus, topic)
                invoked == InvokedHandlers(handlers, firstRaising)
            IN  /\ Len(mockBus.published) < MaxMockPublished
                /\ mockBus' = [mockBus EXCEPT
                       !.published = Append(@, <<topic, data>>),
                       !.calls = @ \o [i \in 1 .. Len(invoked) |->
                                          [handler |-> invoked[i], data |-> data,
                                           raised |-> i = firstRaising,
                                           recorded |-> Len(mockBus.published) + 1]],
                       !.raised = Propagates(firstRaising)]
                /\ UNCHANGED mockRest

NextMockBus == MockSubscribe \/ MockPublish

SpecMockBus == Init /\ [][NextMockBus]_vars

\* The invocations a step adds to the history of a MockBus.
NewCalls == SubSeq(mockBus'.calls, Len(mockBus.calls) + 1, Len(mockBus'.calls))

\* C39: a publish call adds its (topic, data) to the end of published and
\* invokes, with that data, the handlers subscribed to the topic in subscription
\* order: all of them when none raises, and those up to the first that raises
\* otherwise, in which case the call raises with the message in published.
C39_MockPublish ==
    [][mockBus'.published # mockBus.published
       => LET message == Last(mockBus'.published)
              handlers == MockSubscribersOf(mockBus, message[1])
          IN  /\ mockBus'.published = Append(mockBus.published, message)
              /\ mockBus'.subscribers = mockBus.subscribers
              /\ SubSeq(mockBus'.calls, 1, Len(mockBus.calls)) = mockBus.calls
              /\ Len(NewCalls) <= Len(handlers)
              /\ \A i \in 1 .. Len(NewCalls) :
                     /\ NewCalls[i].handler = handlers[i]
                     /\ NewCalls[i].data = message[2]
                     /\ NewCalls[i].recorded = Len(mockBus'.published)
                     /\ NewCalls[i].raised => i = Len(NewCalls)
              /\ mockBus'.raised <=> \E i \in 1 .. Len(NewCalls) : NewCalls[i].raised
              /\ ~mockBus'.raised => Len(NewCalls) = Len(handlers)]_vars

\* The last publish went to a topic with two handlers and raised from the
\* second one, with its message in published.
W_C39_SecondHandlerRaised ==
    /\ mockBus.raised
    /\ Len(mockBus.published) = 1
    /\ Len(mockBus.subscribers[mockBus.published[1][1]]) = 2
    /\ Len(mockBus.calls) = 2
    /\ mockBus.calls[2].raised

====
